---- MODULE Spec2Model ----
(***************************************************************************)
(* Model of src/base/platform/mutex.cc (debug build): Mutex,               *)
(* RecursiveMutex, SharedMutex with its thread-local held-set tracker,     *)
(* and SpinningMutex.  Each lock type is checked under a specification of  *)
(* its own (SpecMutex, SpecRecursive, SpecShared, SpecSpinning); the       *)
(* variables of the other lock types stay at their constructed values.     *)
(*                                                                         *)
(* A thread is a process with a program position.  A handler that makes a  *)
(* blocking native call, or that touches the debug bookkeeping and the     *)
(* native handle in two separate statements, is modelled by one action     *)
(* whose disjuncts are its statements in order, so that every interleaving *)
(* of the statements of different threads is explored.  A failed DCHECK    *)
(* terminates the process: it sets fatal and nothing is enabled afterwards.*)
(***************************************************************************)
EXTENDS Integers, FiniteSets, Sequences, TLC

\* Number of threads using the Mutex.
NumThreads == 3

\* Number of threads using the RecursiveMutex.
NumRecursiveThreads == 3

\* Most acquisitions of the RecursiveMutex a thread nests.
MaxDepth == 2

\* Number of threads using SharedMutex instances.
NumSharedThreads == 2

\* N: number of threads cycling on the SpinningMutex.
NumSpinningThreads == 2

\* M: number of Lock(); increment; Unlock() cycles of each thread.
NumCycles == 2

\* Number of threads using an object that is then destroyed.
NumLifetimeThreads == 2

Threads == 1..NumThreads

RecursiveThreads == 1..NumRecursiveThreads

SharedThreads == 1..NumSharedThreads

SpinningThreads == 1..NumSpinningThreads

LifetimeThreads == 1..NumLifetimeThreads

\* The builds of SpinningMutex::Lock: V8_OS_DARWIN with the weak symbol
\* os_unfair_lock_lock_with_options present, V8_OS_DARWIN with it absent,
\* and every other platform.
Backends == {"darwin_with_options", "darwin_baseline", "general"}

\* The SharedMutex instances (the values of SharedMutex* this).
SharedMutexes == {"a", "b"}

\* nullptr as a SharedMutex*.
Null == "nullptr"

\* nullptr as a TSet*; an allocated set S is <<S>>.
NullSet == <<>>

\* "no thread": the native handle is free.
NoThread == 0

VARIABLES
    fatal,                 \* "none", or the check that terminated the process
    Mutex_native_handle_,  \* Mutex::native_handle_: exclusive holder or NoThread
    Mutex_level_,          \* Mutex::level_
    Mutex_pc,              \* per thread: statement of the Mutex call in progress
    Mutex_ret,             \* the last return of Mutex::TryLock: <<thread, "true"/"false">>
    Mutex_holds,           \* per thread: between a returned Lock()/successful
                           \* TryLock() and its own next call of Unlock()
    Mutex_misuse,          \* some thread called Unlock() while not holding
    RecursiveMutex_owner,  \* RecursiveMutex::native_handle_: owning thread
    RecursiveMutex_count,  \* RecursiveMutex::native_handle_: recursion count
    RecursiveMutex_level_, \* RecursiveMutex::level_
    RecursiveMutex_pc,     \* per thread: statement of the call in progress
    RecursiveMutex_ret,    \* the last return of RecursiveMutex::TryLock
    RecursiveMutex_acq,    \* per thread: returned Lock()/successful TryLock()
                           \* calls minus returned Unlock() calls
    RecursiveMutex_misuse, \* some thread called Unlock() owning no acquisition
    single_held_shared_mutex, \* per thread (thread_local): SharedMutex* or Null
    held_shared_mutexes,   \* per thread (thread_local): TSet* (NullSet or <<S>>)
    SharedMutex_readers,   \* per instance: native_handle_'s shared holders
    SharedMutex_writer,    \* per instance: native_handle_'s exclusive holder
    SharedMutex_pc,        \* per thread: <<statement reached, instance>>
    SharedMutex_ret,       \* what the last step returned, when it was the
                           \* return of a TryLock* or a failed DCHECK:
                           \* <<thread, instance, operation, result>>
    SharedMutex_mode,      \* per thread and instance: "shared"/"exclusive"
                           \* from the return of an acquisition to the call
                           \* of the thread's next unlock of it, else "none"
    SharedMutex_misuse,    \* some thread released a native lock in a mode
                           \* it did not hold it in
    SpinningMutex_backend, \* which SpinningMutex::Lock the build runs
    SpinningMutex_lock_,   \* SpinningMutex::lock_: the holding thread
    SpinningMutex_counter, \* the counter the lock protects
    SpinningMutex_pc,      \* per thread: statement of its cycle
    SpinningMutex_tmp,     \* per thread: the counter value it read
    SpinningMutex_cycles,  \* per thread: cycles completed
    Lifetime_object        \* the object a run follows to its destruction
                           \* ("Mutex" or "RecursiveMutex"), "destroyed" once
                           \* its destructor has returned, "none" in the runs
                           \* that destroy nothing

Mutex_vars == <<Mutex_native_handle_, Mutex_level_, Mutex_pc, Mutex_ret,
                Mutex_holds, Mutex_misuse>>

RecursiveMutex_vars ==
    <<RecursiveMutex_owner, RecursiveMutex_count, RecursiveMutex_level_,
      RecursiveMutex_pc, RecursiveMutex_ret, RecursiveMutex_acq,
      RecursiveMutex_misuse>>

SharedMutex_vars ==
    <<single_held_shared_mutex, held_shared_mutexes, SharedMutex_readers,
      SharedMutex_writer, SharedMutex_pc, SharedMutex_ret, SharedMutex_mode,
      SharedMutex_misuse>>

SpinningMutex_vars ==
    <<SpinningMutex_backend, SpinningMutex_lock_, SpinningMutex_counter,
      SpinningMutex_pc, SpinningMutex_tmp, SpinningMutex_cycles>>

vars == <<fatal, Mutex_vars, RecursiveMutex_vars, SharedMutex_vars,
          SpinningMutex_vars, Lifetime_object>>

Running == fatal = "none" /\ Lifetime_object # "destroyed"

\* A call on the Mutex leaves the other lock objects alone.
Mutex_Frame ==
    UNCHANGED <<RecursiveMutex_vars, SharedMutex_vars, SpinningMutex_vars,
                Lifetime_object>>

\* A call on the RecursiveMutex leaves the other lock objects alone.
RecursiveMutex_Frame ==
    UNCHANGED <<Mutex_vars, SharedMutex_vars, SpinningMutex_vars,
                Lifetime_object>>

\* A call on a SharedMutex leaves the other lock objects alone.
SharedMutex_Frame ==
    UNCHANGED <<Mutex_vars, RecursiveMutex_vars, SpinningMutex_vars,
                Lifetime_object>>

\* A call on the SpinningMutex leaves the other lock objects alone.
SpinningMutex_Frame ==
    UNCHANGED <<Mutex_vars, RecursiveMutex_vars, SharedMutex_vars,
                Lifetime_object>>

(***************************************************************************)
(* Native exclusive lock (absl::Mutex behind native_handle_).              *)
(***************************************************************************)

\* native_handle_.Lock() can return only when the handle is free.
NativeLockCanAcquire(h) == h = NoThread

\* native_handle_.TryLock(): acquires iff the handle is free.
NativeTryLock(h) == h = NoThread

(***************************************************************************)
(* Mutex debug bookkeeping (declared with the class; see spec 4.1).        *)
(***************************************************************************)

\* AssertUnheldAndMark: DCHECK_EQ(0, level_) passes.
AssertUnheld(level) == level = 0

\* AssertUnheldAndMark: the counter after marking ("sets it to 1").
Mark(level) == 1

\* AssertHeldAndUnmark: DCHECK_EQ(1, level_) passes.
AssertHeld(level) == level = 1

\* AssertHeldAndUnmark: the counter after unmarking ("sets to 0").
Unmark(level) == 0

(***************************************************************************)
(* Mutex                                                                   *)
(***************************************************************************)

Mutex_Init ==
    /\ Mutex_native_handle_ = NoThread
    /\ Mutex_level_ = 0
    /\ Mutex_pc = [t \in Threads |-> "idle"]
    /\ Mutex_ret = <<NoThread, "none">>
    /\ Mutex_holds = [t \in Threads |-> FALSE]
    /\ Mutex_misuse = FALSE

\* The statement after a native acquisition: AssertUnheldAndMark(), return.
Mutex_MarkAndReturn(t, r) ==
    IF AssertUnheld(Mutex_level_)
    THEN /\ Mutex_level_' = Mark(Mutex_level_)
         /\ Mutex_pc' = [Mutex_pc EXCEPT ![t] = "idle"]
         /\ Mutex_ret' = r
         /\ Mutex_holds' = [Mutex_holds EXCEPT ![t] = TRUE]
         /\ UNCHANGED <<fatal, Mutex_native_handle_, Mutex_misuse>>
    ELSE /\ fatal' = "DCHECK_EQ(0, level_)"
         /\ UNCHANGED Mutex_vars

\* Lock() with its two statements swapped:
\* { AssertUnheldAndMark(); native_handle_.Lock(); }
Mutex_Lock_MarkFirst(t) ==
    /\ Running
    /\ Mutex_Frame
    /\ \/ /\ Mutex_pc[t] = "idle"
          /\ IF AssertUnheld(Mutex_level_)
             THEN /\ Mutex_level_' = Mark(Mutex_level_)
                  /\ Mutex_pc' = [Mutex_pc EXCEPT ![t] = "Lock_native"]
                  /\ UNCHANGED fatal
             ELSE /\ fatal' = "DCHECK_EQ(0, level_)"
                  /\ UNCHANGED <<Mutex_level_, Mutex_pc>>
          /\ UNCHANGED <<Mutex_native_handle_, Mutex_ret, Mutex_holds,
                         Mutex_misuse>>
       \/ /\ Mutex_pc[t] = "Lock_native"
          /\ NativeLockCanAcquire(Mutex_native_handle_)
          /\ Mutex_native_handle_' = t
          /\ Mutex_pc' = [Mutex_pc EXCEPT ![t] = "idle"]
          /\ Mutex_holds' = [Mutex_holds EXCEPT ![t] = TRUE]
          /\ UNCHANGED <<fatal, Mutex_level_, Mutex_ret, Mutex_misuse>>

\* Lock() written with the non-blocking call, its result ignored:
\* { native_handle_.TryLock(); AssertUnheldAndMark(); }
Mutex_Lock_TryInsteadOfLock(t) ==
    /\ Running
    /\ Mutex_Frame
    /\ \/ /\ Mutex_pc[t] = "idle"
          /\ Mutex_pc' = [Mutex_pc EXCEPT ![t] = "Lock_native"]
          /\ UNCHANGED <<fatal, Mutex_native_handle_, Mutex_level_, Mutex_ret,
                         Mutex_holds, Mutex_misuse>>
       \/ /\ Mutex_pc[t] = "Lock_native"
          /\ Mutex_native_handle_' =
                 IF NativeTryLock(Mutex_native_handle_) THEN t
                 ELSE Mutex_native_handle_
          /\ Mutex_pc' = [Mutex_pc EXCEPT ![t] = "Lock_mark"]
          /\ UNCHANGED <<fatal, Mutex_level_, Mutex_ret, Mutex_holds,
                         Mutex_misuse>>
       \/ /\ Mutex_pc[t] = "Lock_mark"
          /\ Mutex_MarkAndReturn(t, Mutex_ret)

\* void Mutex::Lock() { native_handle_.Lock(); AssertUnheldAndMark(); }
Mutex_Lock(t) ==
    /\ Running
    /\ Mutex_Frame
    /\ \/ \* the call: the thread enters native_handle_.Lock()
          /\ Mutex_pc[t] = "idle"
          /\ Mutex_pc' = [Mutex_pc EXCEPT ![t] = "Lock_native"]
          /\ UNCHANGED <<fatal, Mutex_native_handle_, Mutex_level_, Mutex_ret,
                         Mutex_holds, Mutex_misuse>>
       \/ \* native_handle_.Lock() returns
          /\ Mutex_pc[t] = "Lock_native"
          /\ NativeLockCanAcquire(Mutex_native_handle_)
          /\ Mutex_native_handle_' = t
          /\ Mutex_pc' = [Mutex_pc EXCEPT ![t] = "Lock_mark"]
          /\ UNCHANGED <<fatal, Mutex_level_, Mutex_ret, Mutex_holds,
                         Mutex_misuse>>
       \/ \* AssertUnheldAndMark()
          /\ Mutex_pc[t] = "Lock_mark"
          /\ Mutex_MarkAndReturn(t, Mutex_ret)

\* TryLock() without the early return on failure:
\* { native_handle_.TryLock(); AssertUnheldAndMark(); return true; }
Mutex_TryLock_NoEarlyReturn(t) ==
    /\ Running
    /\ Mutex_Frame
    /\ \/ /\ Mutex_pc[t] = "idle"
          /\ Mutex_native_handle_' =
                 IF NativeTryLock(Mutex_native_handle_) THEN t
                 ELSE Mutex_native_handle_
          /\ Mutex_pc' = [Mutex_pc EXCEPT ![t] = "TryLock_mark"]
          /\ UNCHANGED <<fatal, Mutex_level_, Mutex_ret, Mutex_holds,
                         Mutex_misuse>>
       \/ /\ Mutex_pc[t] = "TryLock_mark"
          /\ Mutex_MarkAndReturn(t, <<t, "true">>)

\* bool Mutex::TryLock() {
\*   if (!native_handle_.TryLock()) return false;
\*   AssertUnheldAndMark(); return true; }
Mutex_TryLock(t) ==
    /\ Running
    /\ Mutex_Frame
    /\ \/ /\ Mutex_pc[t] = "idle"
          /\ IF NativeTryLock(Mutex_native_handle_)
             THEN /\ Mutex_native_handle_' = t
                  /\ Mutex_pc' = [Mutex_pc EXCEPT ![t] = "TryLock_mark"]
                  /\ UNCHANGED Mutex_ret
             ELSE /\ Mutex_ret' = <<t, "false">>
                  /\ UNCHANGED <<Mutex_native_handle_, Mutex_pc>>
          /\ UNCHANGED <<fatal, Mutex_level_, Mutex_holds, Mutex_misuse>>
       \/ /\ Mutex_pc[t] = "TryLock_mark"
          /\ Mutex_MarkAndReturn(t, <<t, "true">>)

\* Unlock() with its two statements swapped:
\* { native_handle_.Unlock(); AssertHeldAndUnmark(); }
Mutex_Unlock_ReleaseFirst(t) ==
    /\ Running
    /\ Mutex_Frame
    /\ \/ /\ Mutex_pc[t] = "idle"
          /\ Mutex_misuse' = (Mutex_misuse \/ ~Mutex_holds[t])
          /\ IF Mutex_native_handle_ = NoThread
             THEN /\ fatal' = "native: unlock of a free lock"
                  /\ UNCHANGED <<Mutex_native_handle_, Mutex_pc, Mutex_holds>>
             ELSE /\ Mutex_native_handle_' = NoThread
                  /\ Mutex_pc' = [Mutex_pc EXCEPT ![t] = "Unlock_unmark"]
                  /\ Mutex_holds' = [Mutex_holds EXCEPT ![t] = FALSE]
                  /\ UNCHANGED fatal
          /\ UNCHANGED <<Mutex_level_, Mutex_ret>>
       \/ /\ Mutex_pc[t] = "Unlock_unmark"
          /\ IF AssertHeld(Mutex_level_)
             THEN /\ Mutex_level_' = Unmark(Mutex_level_)
                  /\ Mutex_pc' = [Mutex_pc EXCEPT ![t] = "idle"]
                  /\ UNCHANGED fatal
             ELSE /\ fatal' = "DCHECK_EQ(1, level_)"
                  /\ UNCHANGED <<Mutex_level_, Mutex_pc>>
          /\ UNCHANGED <<Mutex_native_handle_, Mutex_ret, Mutex_holds,
                         Mutex_misuse>>

\* void Mutex::Unlock() { AssertHeldAndUnmark(); native_handle_.Unlock(); }
Mutex_Unlock(t) ==
    /\ Running
    /\ Mutex_Frame
    /\ \/ \* the call, and the DCHECK_EQ(1, level_) of AssertHeldAndUnmark()
          /\ Mutex_pc[t] = "idle"
          /\ IF AssertHeld(Mutex_level_)
             THEN /\ Mutex_pc' = [Mutex_pc EXCEPT ![t] = "Unlock_unmark"]
                  /\ Mutex_holds' = [Mutex_holds EXCEPT ![t] = FALSE]
                  /\ Mutex_misuse' = (Mutex_misuse \/ ~Mutex_holds[t])
                  /\ UNCHANGED <<fatal, Mutex_native_handle_, Mutex_level_,
                                 Mutex_ret>>
             ELSE /\ fatal' = "DCHECK_EQ(1, level_)"
                  /\ Mutex_misuse' = (Mutex_misuse \/ ~Mutex_holds[t])
                  /\ UNCHANGED <<Mutex_native_handle_, Mutex_level_, Mutex_pc,
                                 Mutex_ret, Mutex_holds>>
       \/ \* the counter write of AssertHeldAndUnmark()
          /\ Mutex_pc[t] = "Unlock_unmark"
          /\ Mutex_level_' = Unmark(Mutex_level_)
          /\ Mutex_pc' = [Mutex_pc EXCEPT ![t] = "Unlock_native"]
          /\ UNCHANGED <<fatal, Mutex_native_handle_, Mutex_ret, Mutex_holds,
                         Mutex_misuse>>
       \/ \* native_handle_.Unlock() by the holder
          /\ Mutex_pc[t] = "Unlock_native"
          /\ Mutex_native_handle_ = t
          /\ Mutex_native_handle_' = NoThread
          /\ Mutex_pc' = [Mutex_pc EXCEPT ![t] = "idle"]
          /\ UNCHANGED <<fatal, Mutex_level_, Mutex_ret, Mutex_holds,
                         Mutex_misuse>>
       \/ \* native_handle_.Unlock() of a handle another thread holds: the
          \* native lock either releases it or reports the misuse and aborts
          /\ Mutex_pc[t] = "Unlock_native"
          /\ Mutex_native_handle_ \notin {t, NoThread}
          /\ \/ /\ Mutex_native_handle_' = NoThread
                /\ Mutex_pc' = [Mutex_pc EXCEPT ![t] = "idle"]
                /\ UNCHANGED fatal
             \/ /\ fatal' = "native: unlock by a thread that does not hold"
                /\ UNCHANGED <<Mutex_native_handle_, Mutex_pc>>
          /\ UNCHANGED <<Mutex_level_, Mutex_ret, Mutex_holds, Mutex_misuse>>
       \/ \* native_handle_.Unlock() of a free handle: the native lock aborts
          /\ Mutex_pc[t] = "Unlock_native"
          /\ Mutex_native_handle_ = NoThread
          /\ fatal' = "native: unlock of a free lock"
          /\ UNCHANGED Mutex_vars

(***************************************************************************)
(* RecursiveMutex (V8_OS_POSIX): a pthread mutex of type                   *)
(* PTHREAD_MUTEX_RECURSIVE, which records its owner and a recursion count. *)
(***************************************************************************)

\* pthread_mutex_lock(mutex) can return: the mutex is free or owned by t.
LockNativeHandle(owner, t) == owner \in {NoThread, t}

\* pthread_mutex_trylock(mutex) does not return EBUSY.
TryLockNativeHandle(owner, t) == owner \in {NoThread, t}

\* pthread_mutex_unlock(mutex) returns 0: the caller owns the mutex (EPERM
\* otherwise, on which DCHECK_EQ(0, result) fails).
UnlockNativeHandle(owner, t) == owner = t

\* RecursiveMutex::RecursiveMutex()
RecursiveMutex_Init ==
    /\ RecursiveMutex_owner = NoThread
    /\ RecursiveMutex_count = 0
    /\ RecursiveMutex_level_ = 0
    /\ RecursiveMutex_pc = [t \in RecursiveThreads |-> "idle"]
    /\ RecursiveMutex_ret = <<NoThread, "none">>
    /\ RecursiveMutex_acq = [t \in RecursiveThreads |-> 0]
    /\ RecursiveMutex_misuse = FALSE

\* The debug statements after a native acquisition:
\* DCHECK_LE(0, level_); level_++; return.
RecursiveMutex_IncrementAndReturn(t, r) ==
    \/ /\ RecursiveMutex_pc[t] \in {"Lock_check", "TryLock_check"}
       /\ IF 0 <= RecursiveMutex_level_
          THEN /\ RecursiveMutex_pc' =
                     [RecursiveMutex_pc EXCEPT ![t] =
                         IF @ = "Lock_check" THEN "Lock_level"
                         ELSE "TryLock_level"]
               /\ UNCHANGED fatal
          ELSE /\ fatal' = "DCHECK_LE(0, level_)"
               /\ UNCHANGED RecursiveMutex_pc
       /\ UNCHANGED <<RecursiveMutex_owner, RecursiveMutex_count,
                      RecursiveMutex_level_, RecursiveMutex_ret,
                      RecursiveMutex_acq, RecursiveMutex_misuse>>
    \/ /\ RecursiveMutex_pc[t] \in {"Lock_level", "TryLock_level"}
       /\ RecursiveMutex_level_' = RecursiveMutex_level_ + 1
       /\ RecursiveMutex_pc' = [RecursiveMutex_pc EXCEPT ![t] = "idle"]
       /\ RecursiveMutex_ret' = r
       /\ RecursiveMutex_acq' = [RecursiveMutex_acq EXCEPT ![t] = @ + 1]
       /\ UNCHANGED <<fatal, RecursiveMutex_owner, RecursiveMutex_count,
                      RecursiveMutex_misuse>>

\* void RecursiveMutex::Lock()
RecursiveMutex_Lock(t) ==
    /\ Running
    /\ RecursiveMutex_Frame
    /\ \/ \* the call: the thread enters pthread_mutex_lock
          /\ RecursiveMutex_pc[t] = "idle"
          /\ RecursiveMutex_acq[t] < MaxDepth
          /\ RecursiveMutex_pc' = [RecursiveMutex_pc EXCEPT ![t] = "Lock_native"]
          /\ UNCHANGED <<fatal, RecursiveMutex_owner, RecursiveMutex_count,
                         RecursiveMutex_level_, RecursiveMutex_ret,
                         RecursiveMutex_acq, RecursiveMutex_misuse>>
       \/ \* LockNativeHandle(&native_handle_) returns
          /\ RecursiveMutex_pc[t] = "Lock_native"
          /\ LockNativeHandle(RecursiveMutex_owner, t)
          /\ RecursiveMutex_owner' = t
          /\ RecursiveMutex_count' = RecursiveMutex_count + 1
          /\ RecursiveMutex_pc' = [RecursiveMutex_pc EXCEPT ![t] = "Lock_check"]
          /\ UNCHANGED <<fatal, RecursiveMutex_level_, RecursiveMutex_ret,
                         RecursiveMutex_acq, RecursiveMutex_misuse>>
       \/ \* DCHECK_LE(0, level_); level_++;
          /\ RecursiveMutex_pc[t] \in {"Lock_check", "Lock_level"}
          /\ RecursiveMutex_IncrementAndReturn(t, RecursiveMutex_ret)

\* TryLock() without the early return on EBUSY:
\* { TryLockNativeHandle(&native_handle_); level_++; return true; }
RecursiveMutex_TryLock_NoEarlyReturn(t) ==
    /\ Running
    /\ RecursiveMutex_Frame
    /\ \/ /\ RecursiveMutex_pc[t] = "idle"
          /\ RecursiveMutex_acq[t] < MaxDepth
          /\ IF TryLockNativeHandle(RecursiveMutex_owner, t)
             THEN /\ RecursiveMutex_owner' = t
                  /\ RecursiveMutex_count' = RecursiveMutex_count + 1
             ELSE UNCHANGED <<RecursiveMutex_owner, RecursiveMutex_count>>
          /\ RecursiveMutex_pc' =
                [RecursiveMutex_pc EXCEPT ![t] = "TryLock_check"]
          /\ UNCHANGED <<fatal, RecursiveMutex_level_, RecursiveMutex_ret,
                         RecursiveMutex_acq, RecursiveMutex_misuse>>
       \/ /\ RecursiveMutex_pc[t] \in {"TryLock_check", "TryLock_level"}
          /\ RecursiveMutex_IncrementAndReturn(t, <<t, "true">>)

\* bool RecursiveMutex::TryLock()
RecursiveMutex_TryLock(t) ==
    /\ Running
    /\ RecursiveMutex_Frame
    /\ \/ \* if (!TryLockNativeHandle(&native_handle_)) return false;
          /\ RecursiveMutex_pc[t] = "idle"
          /\ RecursiveMutex_acq[t] < MaxDepth
          /\ IF TryLockNativeHandle(RecursiveMutex_owner, t)
             THEN /\ RecursiveMutex_owner' = t
                  /\ RecursiveMutex_count' = RecursiveMutex_count + 1
                  /\ RecursiveMutex_pc' =
                        [RecursiveMutex_pc EXCEPT ![t] = "TryLock_check"]
                  /\ UNCHANGED RecursiveMutex_ret
             ELSE /\ RecursiveMutex_ret' = <<t, "false">>
                  /\ UNCHANGED <<RecursiveMutex_owner, RecursiveMutex_count,
                                 RecursiveMutex_pc>>
          /\ UNCHANGED <<fatal, RecursiveMutex_level_, RecursiveMutex_acq,
                         RecursiveMutex_misuse>>
       \/ \* DCHECK_LE(0, level_); level_++; return true;
          /\ RecursiveMutex_pc[t] \in {"TryLock_check", "TryLock_level"}
          /\ RecursiveMutex_IncrementAndReturn(t, <<t, "true">>)

\* Unlock() without DCHECK_LT(0, level_):
\* { level_--; UnlockNativeHandle(&native_handle_); }
RecursiveMutex_Unlock_NoCheck(t) ==
    /\ Running
    /\ RecursiveMutex_Frame
    /\ \/ /\ RecursiveMutex_pc[t] = "idle"
          /\ RecursiveMutex_misuse' =
                 (RecursiveMutex_misuse \/ RecursiveMutex_acq[t] = 0)
          /\ RecursiveMutex_pc' =
                 [RecursiveMutex_pc EXCEPT ![t] = "Unlock_level"]
          /\ UNCHANGED <<fatal, RecursiveMutex_owner, RecursiveMutex_count,
                         RecursiveMutex_level_, RecursiveMutex_ret,
                         RecursiveMutex_acq>>
       \/ /\ RecursiveMutex_pc[t] = "Unlock_level"
          /\ RecursiveMutex_level_' = RecursiveMutex_level_ - 1
          /\ RecursiveMutex_pc' = [RecursiveMutex_pc EXCEPT ![t] = "Unlock_native"]
          /\ UNCHANGED <<fatal, RecursiveMutex_owner, RecursiveMutex_count,
                         RecursiveMutex_ret, RecursiveMutex_acq,
                         RecursiveMutex_misuse>>
       \/ /\ RecursiveMutex_pc[t] = "Unlock_native"
          /\ IF UnlockNativeHandle(RecursiveMutex_owner, t)
             THEN /\ RecursiveMutex_count' = RecursiveMutex_count - 1
                  /\ RecursiveMutex_owner' =
                         IF RecursiveMutex_count = 1 THEN NoThread ELSE t
                  /\ RecursiveMutex_pc' =
                         [RecursiveMutex_pc EXCEPT ![t] = "idle"]
                  /\ RecursiveMutex_acq' =
                         [RecursiveMutex_acq EXCEPT ![t] = @ - 1]
                  /\ UNCHANGED fatal
             ELSE /\ fatal' = "DCHECK_EQ(0, result)"
                  /\ UNCHANGED <<RecursiveMutex_owner, RecursiveMutex_count,
                                 RecursiveMutex_pc, RecursiveMutex_acq>>
          /\ UNCHANGED <<RecursiveMutex_level_, RecursiveMutex_ret,
                         RecursiveMutex_misuse>>

\* void RecursiveMutex::Unlock()
RecursiveMutex_Unlock(t) ==
    /\ Running
    /\ RecursiveMutex_Frame
    /\ \/ \* the call, and DCHECK_LT(0, level_)
          /\ RecursiveMutex_pc[t] = "idle"
          /\ RecursiveMutex_misuse' =
                 (RecursiveMutex_misuse \/ RecursiveMutex_acq[t] = 0)
          /\ IF 0 < RecursiveMutex_level_
             THEN /\ RecursiveMutex_pc' =
                        [RecursiveMutex_pc EXCEPT ![t] = "Unlock_level"]
                  /\ UNCHANGED fatal
             ELSE /\ fatal' = "DCHECK_LT(0, level_)"
                  /\ UNCHANGED RecursiveMutex_pc
          /\ UNCHANGED <<RecursiveMutex_owner, RecursiveMutex_count,
                         RecursiveMutex_level_, RecursiveMutex_ret,
                         RecursiveMutex_acq>>
       \/ \* level_--;
          /\ RecursiveMutex_pc[t] = "Unlock_level"
          /\ RecursiveMutex_level_' = RecursiveMutex_level_ - 1
          /\ RecursiveMutex_pc' = [RecursiveMutex_pc EXCEPT ![t] = "Unlock_native"]
          /\ UNCHANGED <<fatal, RecursiveMutex_owner, RecursiveMutex_count,
                         RecursiveMutex_ret, RecursiveMutex_acq,
                         RecursiveMutex_misuse>>
       \/ \* UnlockNativeHandle(&native_handle_);
          /\ RecursiveMutex_pc[t] = "Unlock_native"
          /\ IF UnlockNativeHandle(RecursiveMutex_owner, t)
             THEN /\ RecursiveMutex_count' = RecursiveMutex_count - 1
                  /\ RecursiveMutex_owner' =
                         IF RecursiveMutex_count = 1 THEN NoThread ELSE t
                  /\ RecursiveMutex_pc' =
                         [RecursiveMutex_pc EXCEPT ![t] = "idle"]
                  /\ RecursiveMutex_acq' =
                         [RecursiveMutex_acq EXCEPT ![t] = @ - 1]
                  /\ UNCHANGED fatal
             ELSE /\ fatal' = "DCHECK_EQ(0, result)"
                  /\ UNCHANGED <<RecursiveMutex_owner, RecursiveMutex_count,
                                 RecursiveMutex_pc, RecursiveMutex_acq>>
          /\ UNCHANGED <<RecursiveMutex_level_, RecursiveMutex_ret,
                         RecursiveMutex_misuse>>

(***************************************************************************)
(* Destructors.  A destructor runs while no thread is inside a member call *)
(* of the object: a call that overlaps the destruction is a use of a dead  *)
(* object.                                                                 *)
(***************************************************************************)

\* ~Mutex() without its DCHECK.
Mutex_Destroy_NoCheck ==
    /\ Running
    /\ Lifetime_object = "Mutex"
    /\ \A t \in Threads : Mutex_pc[t] = "idle"
    /\ Lifetime_object' = "destroyed"
    /\ UNCHANGED <<fatal, Mutex_vars, RecursiveMutex_vars, SharedMutex_vars,
                   SpinningMutex_vars>>

\* Mutex::~Mutex() { DCHECK_EQ(0, level_); }
Mutex_Destroy ==
    /\ Running
    /\ Lifetime_object = "Mutex"
    /\ \A t \in Threads : Mutex_pc[t] = "idle"
    /\ IF Mutex_level_ = 0
       THEN /\ Lifetime_object' = "destroyed"
            /\ UNCHANGED fatal
       ELSE /\ fatal' = "~Mutex: DCHECK_EQ(0, level_)"
            /\ UNCHANGED Lifetime_object
    /\ UNCHANGED <<Mutex_vars, RecursiveMutex_vars, SharedMutex_vars,
                   SpinningMutex_vars>>

\* DestroyNativeHandle(&native_handle_): pthread_mutex_destroy returns 0 for
\* an unlocked mutex.  Destroying a locked one is undefined: the call
\* returns EBUSY, which fails DCHECK_EQ(0, result), or returns 0.
DestroyNativeHandle(count) == IF count = 0 THEN {"0"} ELSE {"0", "EBUSY"}

\* RecursiveMutex::~RecursiveMutex() {
\*   DestroyNativeHandle(&native_handle_); DCHECK_EQ(0, level_); }
RecursiveMutex_Destroy ==
    /\ Running
    /\ Lifetime_object = "RecursiveMutex"
    /\ \A t \in RecursiveThreads : RecursiveMutex_pc[t] = "idle"
    /\ \E result \in DestroyNativeHandle(RecursiveMutex_count) :
          IF result # "0"
          THEN /\ fatal' = "DestroyNativeHandle: DCHECK_EQ(0, result)"
               /\ UNCHANGED Lifetime_object
          ELSE IF RecursiveMutex_level_ = 0
               THEN /\ Lifetime_object' = "destroyed"
                    /\ UNCHANGED fatal
               ELSE /\ fatal' = "~RecursiveMutex: DCHECK_EQ(0, level_)"
                    /\ UNCHANGED Lifetime_object
    /\ UNCHANGED <<Mutex_vars, RecursiveMutex_vars, SharedMutex_vars,
                   SpinningMutex_vars>>

(***************************************************************************)
(* Debug held-set of the calling thread: single_held_shared_mutex and      *)
(* held_shared_mutexes.  Each function is given the caller's two           *)
(* thread_local values and returns its result with their new values;       *)
(* check names a DCHECK inside the function that failed, or is "ok".       *)
(***************************************************************************)

\* bool SharedMutexNotHeld(SharedMutex* shared_mutex)
SharedMutexNotHeld(single, held, shared_mutex) ==
    /\ single # shared_mutex
    /\ (held = NullSet \/ shared_mutex \notin held[1])

\* TryHoldSharedMutex without `if (shared_mutex == single_held_shared_mutex)
\* return false;`.
TryHoldSharedMutex_NoSingleCheck(single, held, shared_mutex) ==
    IF single # Null
    THEN IF held # NullSet
         THEN [ret |-> FALSE, single |-> single, held |-> held,
               check |-> "DCHECK_NULL(held_shared_mutexes)"]
         ELSE [ret |-> TRUE, single |-> Null,
               held |-> <<{single, shared_mutex}>>, check |-> "ok"]
    ELSE IF held # NullSet
         THEN [ret |-> shared_mutex \notin held[1], single |-> single,
               held |-> <<held[1] \cup {shared_mutex}>>, check |-> "ok"]
         ELSE [ret |-> TRUE, single |-> shared_mutex, held |-> held,
               check |-> "ok"]

\* TryHoldSharedMutex without `single_held_shared_mutex = nullptr;` after the
\* promotion to the set.
TryHoldSharedMutex_SlotNotCleared(single, held, shared_mutex) ==
    IF single # Null
    THEN IF shared_mutex = single
         THEN [ret |-> FALSE, single |-> single, held |-> held, check |-> "ok"]
         ELSE IF held # NullSet
              THEN [ret |-> FALSE, single |-> single, held |-> held,
                    check |-> "DCHECK_NULL(held_shared_mutexes)"]
              ELSE [ret |-> TRUE, single |-> single,
                    held |-> <<{single, shared_mutex}>>, check |-> "ok"]
    ELSE IF held # NullSet
         THEN [ret |-> shared_mutex \notin held[1], single |-> single,
               held |-> <<held[1] \cup {shared_mutex}>>, check |-> "ok"]
         ELSE [ret |-> TRUE, single |-> shared_mutex, held |-> held,
               check |-> "ok"]

\* bool TryHoldSharedMutex(SharedMutex* shared_mutex)
TryHoldSharedMutex(single, held, shared_mutex) ==
    IF single # Null
    THEN IF shared_mutex = single
         THEN [ret |-> FALSE, single |-> single, held |-> held, check |-> "ok"]
         ELSE IF held # NullSet
              THEN [ret |-> FALSE, single |-> single, held |-> held,
                    check |-> "DCHECK_NULL(held_shared_mutexes)"]
              ELSE [ret |-> TRUE, single |-> Null,
                    held |-> <<{single, shared_mutex}>>, check |-> "ok"]
    ELSE IF held # NullSet
         THEN [ret |-> shared_mutex \notin held[1], single |-> single,
               held |-> <<held[1] \cup {shared_mutex}>>, check |-> "ok"]
         ELSE [ret |-> TRUE, single |-> shared_mutex, held |-> held,
               check |-> "ok"]

\* TryReleaseSharedMutex without `if (held_shared_mutexes->empty()) { delete
\* held_shared_mutexes; held_shared_mutexes = nullptr; }`.
TryReleaseSharedMutex_NoDelete(single, held, shared_mutex) ==
    IF single = shared_mutex
    THEN [ret |-> TRUE, single |-> Null, held |-> held, check |-> "ok"]
    ELSE IF held # NullSet /\ shared_mutex \in held[1]
         THEN [ret |-> TRUE, single |-> single,
               held |-> <<held[1] \ {shared_mutex}>>, check |-> "ok"]
         ELSE [ret |-> FALSE, single |-> single, held |-> held, check |-> "ok"]

\* bool TryReleaseSharedMutex(SharedMutex* shared_mutex)
TryReleaseSharedMutex(single, held, shared_mutex) ==
    IF single = shared_mutex
    THEN [ret |-> TRUE, single |-> Null, held |-> held, check |-> "ok"]
    ELSE IF held # NullSet /\ shared_mutex \in held[1]
         THEN [ret |-> TRUE, single |-> single,
               held |-> IF held[1] \ {shared_mutex} = {}
                        THEN NullSet
                        ELSE <<held[1] \ {shared_mutex}>>,
               check |-> "ok"]
         ELSE [ret |-> FALSE, single |-> single, held |-> held, check |-> "ok"]

(***************************************************************************)
(* Native reader/writer lock (absl::Mutex behind native_handle_).          *)
(***************************************************************************)

\* native_handle_.ReaderLock() can return / ReaderTryLock() succeeds:
\* no exclusive holder.
NativeReaderCanAcquire(readers, writer) == writer = NoThread

\* native_handle_.Lock() can return / TryLock() succeeds: no holder at all.
NativeWriterCanAcquire(readers, writer) == writer = NoThread /\ readers = {}

(***************************************************************************)
(* SharedMutex                                                             *)
(***************************************************************************)

SharedMutex_Idle == <<"idle", Null>>

\* The last step returned no value.
SharedMutex_NoRet == <<NoThread, Null, "none", "none">>

\* thread_local initialisers, SharedMutex::SharedMutex()
SharedMutex_Init ==
    /\ single_held_shared_mutex = [t \in SharedThreads |-> Null]
    /\ held_shared_mutexes = [t \in SharedThreads |-> NullSet]
    /\ SharedMutex_readers = [m \in SharedMutexes |-> {}]
    /\ SharedMutex_writer = [m \in SharedMutexes |-> NoThread]
    /\ SharedMutex_pc = [t \in SharedThreads |-> SharedMutex_Idle]
    /\ SharedMutex_ret = SharedMutex_NoRet
    /\ SharedMutex_mode =
           [t \in SharedThreads |-> [m \in SharedMutexes |-> "none"]]
    /\ SharedMutex_misuse = FALSE

\* DCHECK(f(this)) with the two held-set variables process-wide instead of
\* thread_local: the write is seen by every thread.
SharedMutex_DcheckHeldSet_NotThreadLocal(t, m, op, r, dcheck, next, ret) ==
    /\ UNCHANGED SharedMutex_misuse
    /\ single_held_shared_mutex' =
           [u \in SharedThreads |->
               IF r.check = "ok" THEN r.single ELSE single_held_shared_mutex[u]]
    /\ held_shared_mutexes' =
           [u \in SharedThreads |->
               IF r.check = "ok" THEN r.held ELSE held_shared_mutexes[u]]
    /\ IF r.check # "ok"
       THEN /\ fatal' = r.check
            /\ SharedMutex_ret' = <<t, m, op, "fatal">>
            /\ UNCHANGED SharedMutex_pc
       ELSE IF ~r.ret
            THEN /\ fatal' = dcheck
                 /\ SharedMutex_ret' = <<t, m, op, "fatal">>
                 /\ UNCHANGED SharedMutex_pc
            ELSE /\ SharedMutex_pc' = [SharedMutex_pc EXCEPT ![t] = next]
                 /\ SharedMutex_ret' = ret
                 /\ UNCHANGED fatal

\* DCHECK(f(this)) where f is TryHoldSharedMutex or TryReleaseSharedMutex and
\* r is what it returned: the thread_local values are written, and the
\* thread goes on to statement next (ret is then the record of the last
\* return) unless the DCHECK (named dcheck) or a DCHECK inside f fails.
SharedMutex_DcheckHeldSet(t, m, op, r, dcheck, next, ret) ==
    /\ UNCHANGED SharedMutex_misuse
    /\ single_held_shared_mutex' = [single_held_shared_mutex EXCEPT ![t] =
                                        IF r.check = "ok" THEN r.single ELSE @]
    /\ held_shared_mutexes' = [held_shared_mutexes EXCEPT ![t] =
                                        IF r.check = "ok" THEN r.held ELSE @]
    /\ IF r.check # "ok"
       THEN /\ fatal' = r.check
            /\ SharedMutex_ret' = <<t, m, op, "fatal">>
            /\ UNCHANGED SharedMutex_pc
       ELSE IF ~r.ret
            THEN /\ fatal' = dcheck
                 /\ SharedMutex_ret' = <<t, m, op, "fatal">>
                 /\ UNCHANGED SharedMutex_pc
            ELSE /\ SharedMutex_pc' = [SharedMutex_pc EXCEPT ![t] = next]
                 /\ SharedMutex_ret' = ret
                 /\ UNCHANGED fatal

\* The acquiring statement of LockShared()/LockExclusive(): a blocking native
\* acquisition in the given mode, after which the call returns.
SharedMutex_NativeAcquire(t, m, mode) ==
    /\ IF mode = "shared"
       THEN /\ NativeReaderCanAcquire(SharedMutex_readers[m], SharedMutex_writer[m])
            /\ SharedMutex_readers' = [SharedMutex_readers EXCEPT ![m] = @ \cup {t}]
            /\ UNCHANGED SharedMutex_writer
       ELSE /\ NativeWriterCanAcquire(SharedMutex_readers[m], SharedMutex_writer[m])
            /\ SharedMutex_writer' = [SharedMutex_writer EXCEPT ![m] = t]
            /\ UNCHANGED SharedMutex_readers
    /\ SharedMutex_pc' = [SharedMutex_pc EXCEPT ![t] = SharedMutex_Idle]
    /\ SharedMutex_mode' = [SharedMutex_mode EXCEPT ![t][m] = mode]
    /\ SharedMutex_ret' = SharedMutex_NoRet
    /\ UNCHANGED <<fatal, single_held_shared_mutex, held_shared_mutexes,
                   SharedMutex_misuse>>

\* void SharedMutex::LockShared() {
\*   DCHECK(TryHoldSharedMutex(this)); native_handle_.ReaderLock(); }
SharedMutex_LockShared(t, m) ==
    /\ Running
    /\ SharedMutex_Frame
    /\ \/ /\ SharedMutex_pc[t] = SharedMutex_Idle
          /\ SharedMutex_DcheckHeldSet(t, m, "LockShared",
                 TryHoldSharedMutex(single_held_shared_mutex[t],
                                    held_shared_mutexes[t], m),
                 "DCHECK(TryHoldSharedMutex(this))",
                 <<"LockShared_native", m>>, SharedMutex_NoRet)
          /\ UNCHANGED <<SharedMutex_readers, SharedMutex_writer,
                         SharedMutex_mode>>
       \/ /\ SharedMutex_pc[t] = <<"LockShared_native", m>>
          /\ SharedMutex_NativeAcquire(t, m, "shared")

\* void SharedMutex::LockExclusive() {
\*   DCHECK(TryHoldSharedMutex(this)); native_handle_.Lock(); }
SharedMutex_LockExclusive(t, m) ==
    /\ Running
    /\ SharedMutex_Frame
    /\ \/ /\ SharedMutex_pc[t] = SharedMutex_Idle
          /\ SharedMutex_DcheckHeldSet(t, m, "LockExclusive",
                 TryHoldSharedMutex(single_held_shared_mutex[t],
                                    held_shared_mutexes[t], m),
                 "DCHECK(TryHoldSharedMutex(this))",
                 <<"LockExclusive_native", m>>, SharedMutex_NoRet)
          /\ UNCHANGED <<SharedMutex_readers, SharedMutex_writer,
                         SharedMutex_mode>>
       \/ /\ SharedMutex_pc[t] = <<"LockExclusive_native", m>>
          /\ SharedMutex_NativeAcquire(t, m, "exclusive")

\* The releasing statement of UnlockShared()/UnlockExclusive().  Released in
\* the mode the caller holds it in, the native lock drops the caller's hold.
\* Otherwise (ReaderUnlock() of a write lock, Unlock() of a read lock, or a
\* release of a lock the caller no longer holds) the native call's
\* precondition is broken: the native lock aborts the process or drops the
\* caller's hold, and what it guarantees from then on is not relied on
\* (SharedMutex_misuse).
SharedMutex_NativeRelease(t, m, mode) ==
    LET proper == \/ mode = "shared" /\ t \in SharedMutex_readers[m]
                  \/ mode = "exclusive" /\ SharedMutex_writer[m] = t
        drop == /\ SharedMutex_readers' =
                       [SharedMutex_readers EXCEPT ![m] = @ \ {t}]
                /\ SharedMutex_writer' =
                       [SharedMutex_writer EXCEPT ![m] =
                           IF @ = t THEN NoThread ELSE @]
                /\ SharedMutex_pc' =
                       [SharedMutex_pc EXCEPT ![t] = SharedMutex_Idle]
                /\ UNCHANGED fatal
    IN  /\ IF proper
           THEN /\ drop
                /\ UNCHANGED SharedMutex_misuse
           ELSE /\ SharedMutex_misuse' = TRUE
                /\ \/ drop
                   \/ /\ fatal' =
                             "native: unlock in a mode the lock is not held in"
                      /\ UNCHANGED <<SharedMutex_readers, SharedMutex_writer,
                                     SharedMutex_pc>>
        /\ SharedMutex_ret' = SharedMutex_NoRet
        /\ UNCHANGED <<single_held_shared_mutex, held_shared_mutexes,
                       SharedMutex_mode>>

\* UnlockShared() with the result of TryReleaseSharedMutex ignored:
\* { TryReleaseSharedMutex(this); native_handle_.ReaderUnlock(); }
SharedMutex_UnlockShared_ResultIgnored(t, m) ==
    /\ Running
    /\ SharedMutex_Frame
    /\ \/ /\ SharedMutex_pc[t] = SharedMutex_Idle
          /\ LET r == TryReleaseSharedMutex(single_held_shared_mutex[t],
                                            held_shared_mutexes[t], m)
             IN /\ single_held_shared_mutex' =
                       [single_held_shared_mutex EXCEPT ![t] = r.single]
                /\ held_shared_mutexes' =
                       [held_shared_mutexes EXCEPT ![t] = r.held]
          /\ SharedMutex_pc' =
                 [SharedMutex_pc EXCEPT ![t] = <<"UnlockShared_native", m>>]
          /\ SharedMutex_ret' = SharedMutex_NoRet
          /\ SharedMutex_mode' = [SharedMutex_mode EXCEPT ![t][m] = "none"]
          /\ UNCHANGED <<fatal, SharedMutex_readers, SharedMutex_writer,
                         SharedMutex_misuse>>
       \/ /\ SharedMutex_pc[t] = <<"UnlockShared_native", m>>
          /\ SharedMutex_NativeRelease(t, m, "shared")

\* void SharedMutex::UnlockShared() {
\*   DCHECK(TryReleaseSharedMutex(this)); native_handle_.ReaderUnlock(); }
SharedMutex_UnlockShared(t, m) ==
    /\ Running
    /\ SharedMutex_Frame
    /\ \/ /\ SharedMutex_pc[t] = SharedMutex_Idle
          /\ SharedMutex_DcheckHeldSet(t, m, "UnlockShared",
                 TryReleaseSharedMutex(single_held_shared_mutex[t],
                                       held_shared_mutexes[t], m),
                 "DCHECK(TryReleaseSharedMutex(this))",
                 <<"UnlockShared_native", m>>, SharedMutex_NoRet)
          /\ SharedMutex_mode' =
                 IF fatal' = "none"
                 THEN [SharedMutex_mode EXCEPT ![t][m] = "none"]
                 ELSE SharedMutex_mode
          /\ UNCHANGED <<SharedMutex_readers, SharedMutex_writer>>
       \/ /\ SharedMutex_pc[t] = <<"UnlockShared_native", m>>
          /\ SharedMutex_NativeRelease(t, m, "shared")

\* void SharedMutex::UnlockExclusive() {
\*   DCHECK(TryReleaseSharedMutex(this)); native_handle_.Unlock(); }
SharedMutex_UnlockExclusive(t, m) ==
    /\ Running
    /\ SharedMutex_Frame
    /\ \/ /\ SharedMutex_pc[t] = SharedMutex_Idle
          /\ SharedMutex_DcheckHeldSet(t, m, "UnlockExclusive",
                 TryReleaseSharedMutex(single_held_shared_mutex[t],
                                       held_shared_mutexes[t], m),
                 "DCHECK(TryReleaseSharedMutex(this))",
                 <<"UnlockExclusive_native", m>>, SharedMutex_NoRet)
          /\ SharedMutex_mode' =
                 IF fatal' = "none"
                 THEN [SharedMutex_mode EXCEPT ![t][m] = "none"]
                 ELSE SharedMutex_mode
          /\ UNCHANGED <<SharedMutex_readers, SharedMutex_writer>>
       \/ /\ SharedMutex_pc[t] = <<"UnlockExclusive_native", m>>
          /\ SharedMutex_NativeRelease(t, m, "exclusive")

\* The first two statements of TryLockShared()/TryLockExclusive():
\*   DCHECK(SharedMutexNotHeld(this));
\*   bool result = native_handle_.ReaderTryLock();   (or TryLock())
\* and, when result is false, the return.
SharedMutex_NativeTry(t, m, op, mode, next) ==
    IF ~SharedMutexNotHeld(single_held_shared_mutex[t], held_shared_mutexes[t], m)
    THEN /\ fatal' = "DCHECK(SharedMutexNotHeld(this))"
         /\ SharedMutex_ret' = <<t, m, op, "fatal">>
         /\ UNCHANGED <<single_held_shared_mutex, held_shared_mutexes,
                        SharedMutex_readers, SharedMutex_writer,
                        SharedMutex_pc, SharedMutex_mode, SharedMutex_misuse>>
    ELSE /\ IF mode = "shared"
            THEN IF NativeReaderCanAcquire(SharedMutex_readers[m],
                                           SharedMutex_writer[m])
                 THEN /\ SharedMutex_readers' =
                             [SharedMutex_readers EXCEPT ![m] = @ \cup {t}]
                      /\ SharedMutex_pc' = [SharedMutex_pc EXCEPT ![t] = next]
                      /\ SharedMutex_ret' = SharedMutex_NoRet
                      /\ UNCHANGED SharedMutex_writer
                 ELSE /\ SharedMutex_ret' = <<t, m, op, "false">>
                      /\ UNCHANGED <<SharedMutex_readers, SharedMutex_writer,
                                     SharedMutex_pc>>
            ELSE IF NativeWriterCanAcquire(SharedMutex_readers[m],
                                           SharedMutex_writer[m])
                 THEN /\ SharedMutex_writer' =
                             [SharedMutex_writer EXCEPT ![m] = t]
                      /\ SharedMutex_pc' = [SharedMutex_pc EXCEPT ![t] = next]
                      /\ SharedMutex_ret' = SharedMutex_NoRet
                      /\ UNCHANGED SharedMutex_readers
                 ELSE /\ SharedMutex_ret' = <<t, m, op, "false">>
                      /\ UNCHANGED <<SharedMutex_readers, SharedMutex_writer,
                                     SharedMutex_pc>>
         /\ UNCHANGED <<fatal, single_held_shared_mutex, held_shared_mutexes,
                        SharedMutex_mode, SharedMutex_misuse>>

\* The last statements of TryLockShared()/TryLockExclusive() when result is
\* true:  DCHECK(TryHoldSharedMutex(this)); return result;
SharedMutex_HoldAndReturn(t, m, op, mode) ==
    /\ SharedMutex_DcheckHeldSet(t, m, op,
           TryHoldSharedMutex(single_held_shared_mutex[t],
                              held_shared_mutexes[t], m),
           "DCHECK(TryHoldSharedMutex(this))", SharedMutex_Idle,
           <<t, m, op, "true">>)
    /\ IF fatal' = "none"
       THEN /\ SharedMutex_mode' = [SharedMutex_mode EXCEPT ![t][m] = mode]
       ELSE /\ UNCHANGED SharedMutex_mode
    /\ UNCHANGED <<SharedMutex_readers, SharedMutex_writer>>

\* bool SharedMutex::TryLockShared()
SharedMutex_TryLockShared(t, m) ==
    /\ Running
    /\ SharedMutex_Frame
    /\ \/ /\ SharedMutex_pc[t] = SharedMutex_Idle
          /\ SharedMutex_NativeTry(t, m, "TryLockShared", "shared",
                                   <<"TryLockShared_hold", m>>)
       \/ /\ SharedMutex_pc[t] = <<"TryLockShared_hold", m>>
          /\ SharedMutex_HoldAndReturn(t, m, "TryLockShared", "shared")

\* TryLockExclusive() that holds on entry, as LockExclusive() does, and then
\* attempts the native acquisition.
SharedMutex_TryLockExclusive_HoldFirst(t, m) ==
    /\ Running
    /\ SharedMutex_Frame
    /\ \/ /\ SharedMutex_pc[t] = SharedMutex_Idle
          /\ SharedMutex_DcheckHeldSet(t, m, "TryLockExclusive",
                 TryHoldSharedMutex(single_held_shared_mutex[t],
                                    held_shared_mutexes[t], m),
                 "DCHECK(TryHoldSharedMutex(this))",
                 <<"TryLockExclusive_hold", m>>, SharedMutex_NoRet)
          /\ UNCHANGED <<SharedMutex_readers, SharedMutex_writer,
                         SharedMutex_mode>>
       \/ /\ SharedMutex_pc[t] = <<"TryLockExclusive_hold", m>>
          /\ IF NativeWriterCanAcquire(SharedMutex_readers[m],
                                       SharedMutex_writer[m])
             THEN /\ SharedMutex_writer' = [SharedMutex_writer EXCEPT ![m] = t]
                  /\ SharedMutex_mode' =
                         [SharedMutex_mode EXCEPT ![t][m] = "exclusive"]
                  /\ SharedMutex_ret' = <<t, m, "TryLockExclusive", "true">>
             ELSE /\ SharedMutex_ret' = <<t, m, "TryLockExclusive", "false">>
                  /\ UNCHANGED <<SharedMutex_writer, SharedMutex_mode>>
          /\ SharedMutex_pc' = [SharedMutex_pc EXCEPT ![t] = SharedMutex_Idle]
          /\ UNCHANGED <<fatal, single_held_shared_mutex, held_shared_mutexes,
                         SharedMutex_readers, SharedMutex_misuse>>

\* TryLockExclusive() that calls native_handle_.ReaderTryLock().
SharedMutex_TryLockExclusive_ReaderTryLock(t, m) ==
    /\ Running
    /\ SharedMutex_Frame
    /\ \/ /\ SharedMutex_pc[t] = SharedMutex_Idle
          /\ SharedMutex_NativeTry(t, m, "TryLockExclusive", "shared",
                                   <<"TryLockExclusive_hold", m>>)
       \/ /\ SharedMutex_pc[t] = <<"TryLockExclusive_hold", m>>
          /\ SharedMutex_HoldAndReturn(t, m, "TryLockExclusive", "exclusive")

\* bool SharedMutex::TryLockExclusive()
SharedMutex_TryLockExclusive(t, m) ==
    /\ Running
    /\ SharedMutex_Frame
    /\ \/ /\ SharedMutex_pc[t] = SharedMutex_Idle
          /\ SharedMutex_NativeTry(t, m, "TryLockExclusive", "exclusive",
                                   <<"TryLockExclusive_hold", m>>)
       \/ /\ SharedMutex_pc[t] = <<"TryLockExclusive_hold", m>>
          /\ SharedMutex_HoldAndReturn(t, m, "TryLockExclusive", "exclusive")

(***************************************************************************)
(* SpinningMutex                                                           *)
(***************************************************************************)

\* os_unfair_lock_lock_with_options(&lock_, options) can return: lock_ free.
os_unfair_lock_lock_with_options(lock) == lock = NoThread

\* os_unfair_lock_lock(&lock_) can return: lock_ free.
os_unfair_lock_lock(lock) == lock = NoThread

\* SpinningMutex::SpinningMutex() in the build b, and N threads about to
\* start their first cycle on a counter of 0.
SpinningMutex_Init(b) ==
    /\ SpinningMutex_backend = b
    /\ SpinningMutex_lock_ = NoThread
    /\ SpinningMutex_counter = 0
    /\ SpinningMutex_pc = [t \in SpinningThreads |-> "Lock"]
    /\ SpinningMutex_tmp = [t \in SpinningThreads |-> 0]
    /\ SpinningMutex_cycles = [t \in SpinningThreads |-> 0]

\* The Darwin build without its else branch: nothing is called when the weak
\* symbol is absent.
SpinningMutex_Lock_NoBaseline(t) ==
    /\ Running
    /\ SpinningMutex_Frame
    /\ SpinningMutex_pc[t] = "Lock"
    /\ \/ /\ SpinningMutex_backend = "darwin_with_options"
          /\ os_unfair_lock_lock_with_options(SpinningMutex_lock_)
          /\ SpinningMutex_lock_' = t
       \/ /\ SpinningMutex_backend = "darwin_baseline"
          /\ UNCHANGED SpinningMutex_lock_
       \/ /\ SpinningMutex_backend = "general"
          /\ NativeLockCanAcquire(SpinningMutex_lock_)
          /\ SpinningMutex_lock_' = t
    /\ SpinningMutex_pc' = [SpinningMutex_pc EXCEPT ![t] = "read"]
    /\ UNCHANGED <<fatal, SpinningMutex_backend, SpinningMutex_counter,
                   SpinningMutex_tmp, SpinningMutex_cycles>>

\* void SpinningMutex::Lock()
\*   Darwin:  if (os_unfair_lock_lock_with_options)
\*              os_unfair_lock_lock_with_options(&lock_, options);
\*            else os_unfair_lock_lock(&lock_);
\*   others:  lock_.Lock();
SpinningMutex_Lock(t) ==
    /\ Running
    /\ SpinningMutex_Frame
    /\ SpinningMutex_pc[t] = "Lock"
    /\ \/ /\ SpinningMutex_backend = "darwin_with_options"
          /\ os_unfair_lock_lock_with_options(SpinningMutex_lock_)
       \/ /\ SpinningMutex_backend = "darwin_baseline"
          /\ os_unfair_lock_lock(SpinningMutex_lock_)
       \/ /\ SpinningMutex_backend = "general"
          /\ NativeLockCanAcquire(SpinningMutex_lock_)
    /\ SpinningMutex_lock_' = t
    /\ SpinningMutex_pc' = [SpinningMutex_pc EXCEPT ![t] = "read"]
    /\ UNCHANGED <<fatal, SpinningMutex_backend, SpinningMutex_counter,
                   SpinningMutex_tmp, SpinningMutex_cycles>>

\* The increment of the shared counter, first half: tmp = counter;
SpinningMutex_ReadCounter(t) ==
    /\ Running
    /\ SpinningMutex_Frame
    /\ SpinningMutex_pc[t] = "read"
    /\ SpinningMutex_tmp' = [SpinningMutex_tmp EXCEPT ![t] = SpinningMutex_counter]
    /\ SpinningMutex_pc' = [SpinningMutex_pc EXCEPT ![t] = "write"]
    /\ UNCHANGED <<fatal, SpinningMutex_backend, SpinningMutex_lock_,
                   SpinningMutex_counter, SpinningMutex_cycles>>

\* The increment of the shared counter, second half: counter = tmp + 1;
SpinningMutex_WriteCounter(t) ==
    /\ Running
    /\ SpinningMutex_Frame
    /\ SpinningMutex_pc[t] = "write"
    /\ SpinningMutex_counter' = SpinningMutex_tmp[t] + 1
    /\ SpinningMutex_pc' = [SpinningMutex_pc EXCEPT ![t] = "Unlock"]
    /\ UNCHANGED <<fatal, SpinningMutex_backend, SpinningMutex_lock_,
                   SpinningMutex_tmp, SpinningMutex_cycles>>

\* void SpinningMutex::Unlock(): the native release, which ends a cycle.
\* Called by a thread that does not hold lock_, the native call's
\* precondition is broken: it aborts the process or leaves lock_ free.
SpinningMutex_Unlock(t) ==
    /\ Running
    /\ SpinningMutex_Frame
    /\ SpinningMutex_pc[t] = "Unlock"
    /\ \/ /\ SpinningMutex_lock_' = NoThread
          /\ SpinningMutex_cycles' = [SpinningMutex_cycles EXCEPT ![t] = @ + 1]
          /\ SpinningMutex_pc' =
                 [SpinningMutex_pc EXCEPT ![t] =
                     IF SpinningMutex_cycles[t] + 1 = NumCycles
                     THEN "done" ELSE "Lock"]
          /\ UNCHANGED fatal
       \/ /\ SpinningMutex_lock_ # t
          /\ fatal' = "native: unlock by a thread that does not hold"
          /\ UNCHANGED <<SpinningMutex_lock_, SpinningMutex_cycles,
                         SpinningMutex_pc>>
    /\ UNCHANGED <<SpinningMutex_backend, SpinningMutex_counter,
                   SpinningMutex_tmp>>

(***************************************************************************)
(* Specifications                                                          *)
(***************************************************************************)

\* The state after construction.  The build of SpinningMutex is fixed to the
\* general one where the SpinningMutex is not used, and is any of the
\* three where it is.
Init == /\ fatal = "none"
        /\ Mutex_Init
        /\ RecursiveMutex_Init
        /\ SharedMutex_Init
        /\ SpinningMutex_Init("general")
        /\ Lifetime_object = "none"

\* The state after construction of the one object, a Mutex or a
\* RecursiveMutex, that the run follows to its destruction.
Lifetime_Init ==
    /\ fatal = "none"
    /\ Mutex_Init
    /\ RecursiveMutex_Init
    /\ SharedMutex_Init
    /\ SpinningMutex_Init("general")
    /\ Lifetime_object \in {"Mutex", "RecursiveMutex"}

SpinningMutex_AnyBuildInit ==
    /\ fatal = "none"
    /\ Mutex_Init
    /\ RecursiveMutex_Init
    /\ SharedMutex_Init
    /\ \E b \in Backends : SpinningMutex_Init(b)
    /\ Lifetime_object = "none"

Mutex_Next ==
    \E t \in Threads : Mutex_Lock(t) \/ Mutex_TryLock(t) \/ Mutex_Unlock(t)

RecursiveMutex_Next ==
    \E t \in RecursiveThreads :
        \/ RecursiveMutex_Lock(t)
        \/ RecursiveMutex_TryLock(t)
        \/ RecursiveMutex_Unlock(t)

\* The instances the held-set functions are called with when they are
\* exercised on their own.
HeldSetInstances == {"a", "b", "c"}

\* The value a bool-returning function returned.
BoolRet(b) == IF b THEN "true" ELSE "false"

\* A call SharedMutexNotHeld(m) by thread t: reads, writes nothing.
HeldSet_SharedMutexNotHeld(t, m) ==
    /\ Running
    /\ SharedMutex_Frame
    /\ SharedMutex_ret' =
           <<t, m, "SharedMutexNotHeld",
             BoolRet(SharedMutexNotHeld(single_held_shared_mutex[t],
                                        held_shared_mutexes[t], m))>>
    /\ UNCHANGED <<fatal, single_held_shared_mutex, held_shared_mutexes,
                   SharedMutex_readers, SharedMutex_writer, SharedMutex_pc,
                   SharedMutex_mode, SharedMutex_misuse>>

\* What a call of f(m) by thread t, f being TryHoldSharedMutex or
\* TryReleaseSharedMutex and r its result, does to t's thread_local values:
\* a failing DCHECK inside f aborts, else the values are written and the
\* bool is returned.
HeldSet_Apply(t, m, f, r) ==
    /\ Running
    /\ SharedMutex_Frame
    /\ IF r.check # "ok"
       THEN /\ fatal' = r.check
            /\ SharedMutex_ret' = <<t, m, f, "fatal">>
            /\ UNCHANGED <<single_held_shared_mutex, held_shared_mutexes>>
       ELSE /\ single_held_shared_mutex' =
                   [single_held_shared_mutex EXCEPT ![t] = r.single]
            /\ held_shared_mutexes' =
                   [held_shared_mutexes EXCEPT ![t] = r.held]
            /\ SharedMutex_ret' = <<t, m, f, BoolRet(r.ret)>>
            /\ UNCHANGED fatal
    /\ UNCHANGED <<SharedMutex_readers, SharedMutex_writer, SharedMutex_pc,
                   SharedMutex_mode, SharedMutex_misuse>>

\* A call TryHoldSharedMutex(m) by thread t.
HeldSet_TryHoldSharedMutex(t, m) ==
    HeldSet_Apply(t, m, "TryHoldSharedMutex",
                  TryHoldSharedMutex(single_held_shared_mutex[t],
                                     held_shared_mutexes[t], m))

\* A call TryReleaseSharedMutex(m) by thread t.
HeldSet_TryReleaseSharedMutex(t, m) ==
    HeldSet_Apply(t, m, "TryReleaseSharedMutex",
                  TryReleaseSharedMutex(single_held_shared_mutex[t],
                                        held_shared_mutexes[t], m))

\* The three held-set functions called in any order, by any thread, with
\* any instance, whatever they return.
HeldSet_Next ==
    \E t \in SharedThreads, m \in HeldSetInstances :
        \/ HeldSet_SharedMutexNotHeld(t, m)
        \/ HeldSet_TryHoldSharedMutex(t, m)
        \/ HeldSet_TryReleaseSharedMutex(t, m)

SharedMutex_Next ==
    \E t \in SharedThreads, m \in SharedMutexes :
        \/ SharedMutex_LockShared(t, m)
        \/ SharedMutex_LockExclusive(t, m)
        \/ SharedMutex_UnlockShared(t, m)
        \/ SharedMutex_UnlockExclusive(t, m)
        \/ SharedMutex_TryLockShared(t, m)
        \/ SharedMutex_TryLockExclusive(t, m)

SpinningMutex_Next ==
    \E t \in SpinningThreads :
        \/ SpinningMutex_Lock(t)
        \/ SpinningMutex_ReadCounter(t)
        \/ SpinningMutex_WriteCounter(t)
        \/ SpinningMutex_Unlock(t)

\* The calls on the object the run follows, by the threads that use it.
Lifetime_MutexCall ==
    /\ Lifetime_object = "Mutex"
    /\ \E t \in LifetimeThreads :
          Mutex_Lock(t) \/ Mutex_TryLock(t) \/ Mutex_Unlock(t)

Lifetime_RecursiveMutexCall ==
    /\ Lifetime_object = "RecursiveMutex"
    /\ \E t \in LifetimeThreads :
          \/ RecursiveMutex_Lock(t)
          \/ RecursiveMutex_TryLock(t)
          \/ RecursiveMutex_Unlock(t)

Lifetime_Next ==
    \/ Lifetime_MutexCall
    \/ Mutex_Destroy
    \/ Lifetime_RecursiveMutexCall
    \/ RecursiveMutex_Destroy

SpecMutex == Init /\ [][Mutex_Next]_vars

SpecRecursive == Init /\ [][RecursiveMutex_Next]_vars

SpecShared == Init /\ [][SharedMutex_Next]_vars

SpecHeldSet == Init /\ [][HeldSet_Next]_vars

SpecLifetime == Lifetime_Init /\ [][Lifetime_Next]_vars

\* The threads are scheduled by the OS: while some thread can take a step,
\* some thread does.
SpecSpinning ==
    /\ SpinningMutex_AnyBuildInit
    /\ [][SpinningMutex_Next]_vars
    /\ WF_vars(SpinningMutex_Next)

(***************************************************************************)
(* Mutex: properties                                                       *)
(***************************************************************************)

\* The threads between a returned Lock()/successful TryLock() and their Unlock().
Mutex_Holders == {t \in Threads : Mutex_holds[t]}

\* The step in which thread t calls Unlock(): the counter check.
Mutex_UnlockCall(t) == Mutex_pc[t] = "idle" /\ Mutex_Unlock(t)

\* The step in which thread t calls TryLock(): the native attempt.
Mutex_TryLockCall(t) == Mutex_pc[t] = "idle" /\ Mutex_TryLock(t)

\* C1: Mutex mutual exclusion.  While Unlock() is called only by the thread
\* that holds the instance (the calling contract of Unlock), at most one
\* thread is between a returned Lock()/successful TryLock() and its matching
\* Unlock(), that thread owns the native handle, and no native acquisition
\* of Lock()/TryLock() has returned in a thread while another thread holds.
C1_MutexMutualExclusion ==
    ~Mutex_misuse =>
        /\ Cardinality(Mutex_Holders) <= 1
        /\ \A t \in Mutex_Holders : Mutex_native_handle_ = t
        /\ \A t \in Threads :
              Mutex_pc[t] \in {"Lock_mark", "TryLock_mark"} =>
                  /\ Mutex_Holders = {}
                  /\ Mutex_native_handle_ = t

\* C1 witness: one thread holds, a second is blocked inside Lock(), and a
\* third had TryLock() return false.
C1_Witness ==
    /\ ~Mutex_misuse
    /\ \E t, u, v \in Threads :
          /\ t # u /\ v # t
          /\ Mutex_holds[t]
          /\ Mutex_pc[u] = "Lock_native"
          /\ Mutex_ret = <<v, "false">>

\* C5: TryLock() never blocks: each of its statements is enabled whenever the
\* thread is at it; called while the native handle is held it returns false
\* and changes neither the counter, the holder nor anything else of the
\* instance; called while the instance is free (under the calling contract)
\* it takes the native handle and then the counter from 0 to 1 and returns
\* true.
C5_TryLockNeverBlocks ==
    /\ [](\A t \in Threads :
            (Running /\ Mutex_pc[t] \in {"idle", "TryLock_mark"})
                => ENABLED Mutex_TryLock(t))
    /\ [][\A t \in Threads :
            (Mutex_TryLockCall(t) /\ Mutex_native_handle_ # NoThread) =>
                /\ Mutex_ret' = <<t, "false">>
                /\ Mutex_pc'[t] = "idle"
                /\ UNCHANGED <<fatal, Mutex_level_, Mutex_native_handle_,
                               Mutex_holds>>]_vars
    /\ [][\A t \in Threads :
            (Mutex_TryLockCall(t) /\ Mutex_native_handle_ = NoThread
                                  /\ ~Mutex_misuse) =>
                /\ Mutex_native_handle_' = t
                /\ Mutex_pc'[t] = "TryLock_mark"
                /\ Mutex_level_ = 0]_vars
    /\ [][\A t \in Threads :
            (Mutex_pc[t] = "TryLock_mark" /\ Mutex_TryLock(t)
                                          /\ ~Mutex_misuse) =>
                /\ Mutex_level_ = 0 /\ Mutex_level_' = 1
                /\ Mutex_ret' = <<t, "true">>
                /\ Mutex_pc'[t] = "idle"
                /\ Mutex_holds'[t]
                /\ fatal' = "none"]_vars

\* C5 witness: thread t holds the instance, and the TryLock() of another
\* thread u has returned false, leaving u outside any call.
C5_Witness ==
    /\ ~Mutex_misuse
    /\ \E t, u \in Threads :
          /\ t # u
          /\ Mutex_holds[t] /\ Mutex_native_handle_ = t /\ Mutex_level_ = 1
          /\ Mutex_ret = <<u, "false">> /\ Mutex_pc[u] = "idle"

\* C8: no false positives under balanced use.  As long as every Unlock() has
\* been called by the thread holding the instance, no assertion has fired;
\* and when every thread has finished (is outside any call and holds
\* nothing) the debug counter is 0 and the native handle is free.
C8_NoFalsePositive ==
    ~Mutex_misuse =>
        /\ fatal = "none"
        /\ (\A t \in Threads : Mutex_pc[t] = "idle" /\ ~Mutex_holds[t]) =>
              (Mutex_level_ = 0 /\ Mutex_native_handle_ = NoThread)

\* C8 witness: all threads have finished after balanced use in which a
\* thread was refused by TryLock() while another one held the instance.
C8_Witness ==
    /\ ~Mutex_misuse
    /\ \A t \in Threads : Mutex_pc[t] = "idle" /\ ~Mutex_holds[t]
    /\ \E u \in Threads : Mutex_ret = <<u, "false">>

\* C9 as stated: Unlock() called by a thread that does not hold the instance
\* always fires the fatal debug assertion, whether the instance is free or
\* held by a different thread.
C9_UnlockByNonHolderAlwaysFatal ==
    [][\A t \in Threads :
           (Mutex_UnlockCall(t) /\ ~Mutex_holds[t]) =>
               fatal' = "DCHECK_EQ(1, level_)"]_vars

\* C9 amended: Unlock() called by a thread that does not hold the instance
\* fires the fatal debug assertion exactly when the debug counter is 0 at
\* the call.  Up to the first such call that is the case whenever the native
\* handle is free, and is not the case while a different thread holds the
\* instance: then the counter is 1, the assertion passes and the Unlock()
\* goes on to reset the counter.
C9_UnlockByNonHolderFatalIffCounterZero ==
    /\ [][\A t \in Threads :
            (Mutex_UnlockCall(t) /\ ~Mutex_holds[t]) =>
                /\ (fatal' = "DCHECK_EQ(1, level_)") <=> (Mutex_level_ = 0)
                /\ (fatal' = "none") <=> (Mutex_level_ = 1)
                /\ (Mutex_level_ = 1) => Mutex_pc'[t] = "Unlock_unmark"
                /\ (~Mutex_misuse /\ Mutex_native_handle_ = NoThread) =>
                       fatal' = "DCHECK_EQ(1, level_)"
                /\ (~Mutex_misuse /\ Mutex_Holders # {}) =>
                       fatal' = "none"]_vars

\* C9 witness: an Unlock() of a free instance has fired the assertion.
C9_Witness ==
    /\ fatal = "DCHECK_EQ(1, level_)"
    /\ Mutex_misuse
    /\ Mutex_native_handle_ = NoThread
    /\ Mutex_Holders = {}

\* C10: the debug counter state machine.  The counter is 0 or 1 in every
\* state and 0 at construction; it becomes 1 only in the marking statement
\* of a Lock()/TryLock() whose native acquisition succeeded and which found
\* it 0; it returns to 0 only in the unmarking statement of an Unlock() whose
\* check found it 1; an Unlock() called when it is 0 fires the assertion and
\* leaves it 0.
C10_CounterStateMachine ==
    /\ Mutex_level_ = 0
    /\ [](Mutex_level_ \in {0, 1})
    /\ [][(Mutex_level_ = 0 /\ Mutex_level_' # 0) =>
            /\ Mutex_level_' = 1
            /\ \E t \in Threads :
                  /\ Mutex_pc[t] \in {"Lock_mark", "TryLock_mark"}
                  /\ ~Mutex_misuse => Mutex_native_handle_ = t
                  /\ Mutex_pc'[t] = "idle"
                  /\ Mutex_holds'[t]]_vars
    /\ [][(Mutex_level_ = 1 /\ Mutex_level_' # 1) =>
            /\ Mutex_level_' = 0
            /\ \E t \in Threads :
                  /\ Mutex_pc[t] = "Unlock_unmark"
                  /\ Mutex_pc'[t] = "Unlock_native"]_vars
    /\ [][\A t \in Threads :
            (Mutex_pc[t] = "idle" /\ Mutex_pc'[t] = "Unlock_unmark") =>
                Mutex_level_ = 1]_vars
    /\ [][\A t \in Threads :
            (Mutex_UnlockCall(t) /\ Mutex_level_ = 0) =>
                /\ fatal' = "DCHECK_EQ(1, level_)"
                /\ Mutex_level_' = 0]_vars

\* C10 witness: the counter went to 1 and back to 0 through a successful
\* TryLock() and its Unlock(), and a further Unlock() at 0 took the fatal path.
C10_Witness ==
    /\ fatal = "DCHECK_EQ(1, level_)"
    /\ Mutex_level_ = 0
    /\ \E t \in Threads : Mutex_ret = <<t, "true">> /\ ~Mutex_holds[t]

(***************************************************************************)
(* RecursiveMutex: properties                                              *)
(***************************************************************************)

\* The step in which thread t calls RecursiveMutex::TryLock().
RecursiveMutex_TryLockCall(t) ==
    RecursiveMutex_pc[t] = "idle" /\ RecursiveMutex_TryLock(t)

\* C3: RecursiveMutex reentrancy.  While thread T owns k > 0 acquisitions
\* (returned Lock()/successful TryLock() calls not yet undone by a returned
\* Unlock()), T owns the native lock, and every TryLock() of another thread
\* returns false and changes neither the depth counter nor the native lock.
\* T's own TryLock() succeeds and its Lock() is not blocked.  Under the
\* calling contract (Unlock() only by a thread owning an acquisition) the
\* depth counter equals k whenever T is between calls, and the Unlock() that
\* takes k to 0 leaves the native lock free and the depth counter 0.
C3_RecursiveReentrancy ==
    /\ [](\A t \in RecursiveThreads :
            RecursiveMutex_acq[t] > 0 => RecursiveMutex_owner = t)
    /\ [][\A t, u \in RecursiveThreads :
            (t # u /\ RecursiveMutex_acq[t] > 0
                   /\ RecursiveMutex_TryLockCall(u)) =>
                /\ RecursiveMutex_ret' = <<u, "false">>
                /\ RecursiveMutex_pc'[u] = "idle"
                /\ UNCHANGED <<fatal, RecursiveMutex_level_,
                               RecursiveMutex_owner, RecursiveMutex_count,
                               RecursiveMutex_acq>>]_vars
    /\ [][\A t \in RecursiveThreads :
            (RecursiveMutex_acq[t] > 0 /\ RecursiveMutex_TryLockCall(t)) =>
                /\ RecursiveMutex_pc'[t] = "TryLock_check"
                /\ RecursiveMutex_owner' = t
                /\ RecursiveMutex_count' = RecursiveMutex_count + 1]_vars
    /\ [](\A t \in RecursiveThreads :
            (Running /\ RecursiveMutex_acq[t] > 0
                     /\ RecursiveMutex_pc[t] = "Lock_native")
                => ENABLED RecursiveMutex_Lock(t))
    /\ [](\A t \in RecursiveThreads :
            (~RecursiveMutex_misuse /\ RecursiveMutex_acq[t] > 0
                                    /\ RecursiveMutex_pc[t] = "idle") =>
                /\ RecursiveMutex_level_ = RecursiveMutex_acq[t]
                /\ RecursiveMutex_count = RecursiveMutex_acq[t])
    /\ [][\A t \in RecursiveThreads :
            (~RecursiveMutex_misuse /\ RecursiveMutex_acq[t] > 0
                                    /\ RecursiveMutex_acq'[t] = 0) =>
                /\ RecursiveMutex_owner' = NoThread
                /\ RecursiveMutex_count' = 0
                /\ RecursiveMutex_level_' = 0
                /\ \A u \in RecursiveThreads :
                      /\ LockNativeHandle(RecursiveMutex_owner', u)
                      /\ TryLockNativeHandle(RecursiveMutex_owner', u)]_vars

\* C3 witness: thread t owns MaxDepth nested acquisitions, the depth counter
\* is MaxDepth, and the TryLock() of another thread has just returned false.
C3_Witness ==
    /\ ~RecursiveMutex_misuse
    /\ \E t, u \in RecursiveThreads :
          /\ t # u
          /\ RecursiveMutex_acq[t] = MaxDepth
          /\ RecursiveMutex_level_ = MaxDepth
          /\ RecursiveMutex_ret = <<u, "false">>

(***************************************************************************)
(* SharedMutex: properties                                                 *)
(***************************************************************************)

\* The held-set of a thread, from its two thread_local values.
HeldSetOf(single, held) ==
    (IF single # Null THEN {single} ELSE {})
        \cup (IF held # NullSet THEN held[1] ELSE {})

HeldSet(t) == HeldSetOf(single_held_shared_mutex[t], held_shared_mutexes[t])

SharedHolders(m) == {t \in SharedThreads : SharedMutex_mode[t][m] = "shared"}

ExclusiveHolders(m) ==
    {t \in SharedThreads : SharedMutex_mode[t][m] = "exclusive"}

\* The step is one of thread t in a call on m: t moves into or out of a
\* statement of a call on m, or the return recorded is of t's call on m.
SharedMutex_StepOn(t, m) ==
    \/ /\ SharedMutex_pc'[t] # SharedMutex_pc[t]
       /\ m \in {SharedMutex_pc[t][2], SharedMutex_pc'[t][2]}
    \/ /\ SharedMutex_ret'[1] = t
       /\ SharedMutex_ret'[2] = m

\* Thread t, in no call and with m not in its held-set, calls an operation
\* on m.
SharedMutex_Call(t, m) ==
    /\ SharedMutex_pc[t] = SharedMutex_Idle
    /\ m \notin HeldSet(t)
    /\ SharedMutex_StepOn(t, m)

\* C2, the states: while every native release was made in the mode held, an
\* instance has at most one exclusive holder and no shared holder beside an
\* exclusive one, and the holders are the holders of its native lock.
C2_HoldersExclude ==
    ~SharedMutex_misuse =>
        \A m \in SharedMutexes :
            /\ Cardinality(ExclusiveHolders(m)) <= 1
            /\ ExclusiveHolders(m) # {} => SharedHolders(m) = {}
            /\ \A t \in ExclusiveHolders(m) : SharedMutex_writer[m] = t
            /\ \A t \in SharedHolders(m) : t \in SharedMutex_readers[m]
            /\ ~(SharedMutex_writer[m] # NoThread
                   /\ SharedMutex_readers[m] # {})

\* C2, the calls of a thread t that does not hold m, while another thread u
\* holds it: TryLockExclusive() returns false beside a shared holder,
\* TryLockShared() and TryLockExclusive() return false beside an exclusive
\* holder, and TryLockShared() beside a shared holder acquires and then
\* returns true.
C2_TryLockOutcomes ==
    \A t \in SharedThreads, m \in SharedMutexes :
        LET besideShared == SharedHolders(m) \ {t} # {}
            besideExclusive == ExclusiveHolders(m) \ {t} # {}
        IN  /\ ( /\ SharedMutex_Call(t, m)
                 /\ ~SharedMutex_misuse
                 /\ besideShared \/ besideExclusive
                 /\ SharedMutex_TryLockExclusive(t, m) )
               => /\ SharedMutex_ret' = <<t, m, "TryLockExclusive", "false">>
                  /\ SharedMutex_pc'[t] = SharedMutex_Idle
                  /\ UNCHANGED <<SharedMutex_readers, SharedMutex_writer>>
            /\ ( /\ SharedMutex_Call(t, m)
                 /\ ~SharedMutex_misuse
                 /\ besideExclusive
                 /\ SharedMutex_TryLockShared(t, m) )
               => /\ SharedMutex_ret' = <<t, m, "TryLockShared", "false">>
                  /\ SharedMutex_pc'[t] = SharedMutex_Idle
                  /\ UNCHANGED <<SharedMutex_readers, SharedMutex_writer>>
            /\ ( /\ SharedMutex_Call(t, m)
                 /\ ~SharedMutex_misuse
                 /\ besideShared
                 /\ SharedMutex_TryLockShared(t, m) )
               => /\ fatal' = "none"
                  /\ SharedMutex_ret'[4] # "false"
                  /\ t \in SharedMutex_readers'[m]
                  /\ SharedMutex_pc'[t] = <<"TryLockShared_hold", m>>
            /\ ( /\ SharedMutex_pc[t] = <<"TryLockShared_hold", m>>
                 /\ SharedMutex_StepOn(t, m)
                 /\ SharedMutex_TryLockShared(t, m) )
               => /\ SharedMutex_ret' = <<t, m, "TryLockShared", "true">>
                  /\ t \in SharedHolders(m)'
                  /\ SharedMutex_pc'[t] = SharedMutex_Idle

\* C2: SharedMutex reader/writer exclusion.  In every reachable state an
\* instance has any number of shared holders or exactly one exclusive
\* holder, never both; while a thread holds it shared, TryLockExclusive()
\* from another thread returns false; while a thread holds it exclusive,
\* TryLockShared() and TryLockExclusive() from every other thread return
\* false; TryLockShared() from another thread succeeds while only shared
\* holders exist.
C2_ReaderWriterExclusion ==
    /\ []C2_HoldersExclude
    /\ [][C2_TryLockOutcomes]_vars

\* Two threads hold instance "a" shared, the second by a TryLockShared()
\* that has just returned true, while the first holds "b" exclusive.
C2_Witness ==
    \E t \in SharedThreads, u \in SharedThreads :
        /\ t # u
        /\ ~SharedMutex_misuse
        /\ SharedHolders("a") = {t, u}
        /\ ExclusiveHolders("b") = {u}
        /\ SharedMutex_ret = <<t, "a", "TryLockShared", "true">>

\* The four acquiring operations.
SharedMutex_Acquire(t, m) ==
    \/ SharedMutex_LockShared(t, m)
    \/ SharedMutex_LockExclusive(t, m)
    \/ SharedMutex_TryLockShared(t, m)
    \/ SharedMutex_TryLockExclusive(t, m)

\* C6, the call: made with m in the caller's held-set, an acquiring
\* operation fails its DCHECK in its first step, with the native lock
\* untouched and the thread at no blocking statement.
C6_AcquireOfHeldIsFatal ==
    \A t \in SharedThreads, m \in SharedMutexes :
        ( /\ SharedMutex_pc[t] = SharedMutex_Idle
          /\ m \in HeldSet(t)
          /\ SharedMutex_StepOn(t, m)
          /\ SharedMutex_Acquire(t, m) )
        => /\ fatal' \in {"DCHECK(TryHoldSharedMutex(this))",
                          "DCHECK(SharedMutexNotHeld(this))"}
           /\ SharedMutex_ret'[1] = t
           /\ SharedMutex_ret'[2] = m
           /\ SharedMutex_ret'[4] = "fatal"
           /\ SharedMutex_pc'[t] = SharedMutex_Idle
           /\ UNCHANGED <<SharedMutex_readers, SharedMutex_writer>>

\* C6, the states: such a call never waits, whoever holds the native lock.
C6_AcquireOfHeldNeverBlocks ==
    \A t \in SharedThreads, m \in SharedMutexes :
        (Running /\ SharedMutex_pc[t] = SharedMutex_Idle /\ m \in HeldSet(t))
        => /\ ENABLED SharedMutex_LockShared(t, m)
           /\ ENABLED SharedMutex_LockExclusive(t, m)
           /\ ENABLED SharedMutex_TryLockShared(t, m)
           /\ ENABLED SharedMutex_TryLockExclusive(t, m)

\* C6: SharedMutex double-hold detection.  Whenever a thread whose held-set
\* already contains an instance calls LockShared(), LockExclusive(),
\* TryLockShared() or TryLockExclusive() on that instance, in any
\* combination of modes, the fatal debug assertion fires, and it fires
\* before the native acquisition is attempted, so the thread never blocks
\* on the native lock.
C6_DoubleHoldDetection ==
    /\ []C6_AcquireOfHeldNeverBlocks
    /\ [][C6_AcquireOfHeldIsFatal]_vars

\* A thread that holds an instance shared (LockShared() returned) has called
\* LockExclusive() on it and the assertion fired, the native lock still held
\* shared by it and by nobody exclusively.
C6_Witness ==
    \E t \in SharedThreads, m \in SharedMutexes :
        /\ fatal = "DCHECK(TryHoldSharedMutex(this))"
        /\ SharedMutex_ret = <<t, m, "LockExclusive", "fatal">>
        /\ SharedMutex_mode[t][m] = "shared"
        /\ t \in SharedMutex_readers[m]
        /\ SharedMutex_writer[m] = NoThread
        /\ SharedMutex_pc[t] = SharedMutex_Idle

\* C7, one step of TryLockShared()/TryLockExclusive() by thread t on m.
C7_TryLockStep(t, m, op, blocked) ==
    LET before == HeldSet(t)
        after == HeldSetOf(single_held_shared_mutex'[t],
                           held_shared_mutexes'[t])
        called == SharedMutex_pc[t] = SharedMutex_Idle /\ m \notin before
    IN  /\ \* the native acquisition fails where it cannot succeed
           (called /\ blocked)
           => SharedMutex_ret' = <<t, m, op, "false">>
        /\ \* false is returned from the entry state, the held-set as it was
           SharedMutex_ret'[4] = "false"
           => /\ SharedMutex_pc[t] = SharedMutex_Idle
              /\ SharedMutex_pc'[t] = SharedMutex_Idle
              /\ SharedMutex_ret' = <<t, m, op, "false">>
              /\ UNCHANGED <<single_held_shared_mutex, held_shared_mutexes>>
        /\ \* the native acquisition succeeds: nothing is held yet
           (called /\ ~blocked)
           => /\ fatal' = "none"
              /\ SharedMutex_pc'[t] # SharedMutex_Idle
              /\ UNCHANGED <<single_held_shared_mutex, held_shared_mutexes>>
        /\ \* and the call then holds exactly m more and returns true
           SharedMutex_pc[t] # SharedMutex_Idle
           => /\ fatal' = "none"
              /\ SharedMutex_ret' = <<t, m, op, "true">>
              /\ SharedMutex_pc'[t] = SharedMutex_Idle
              /\ m \notin before
              /\ after = before \cup {m}
              /\ \A u \in SharedThreads \ {t} :
                    /\ single_held_shared_mutex'[u] = single_held_shared_mutex[u]
                    /\ held_shared_mutexes'[u] = held_shared_mutexes[u]

\* C7: SharedMutex TryLockShared()/TryLockExclusive() effect on the
\* held-set.  When the native non-blocking acquisition fails the call
\* returns false and the calling thread's held-set (single slot and fallback
\* set) is unchanged; when it succeeds the call returns true and the
\* held-set afterwards is the previous held-set plus exactly this instance.
C7_TryLockHeldSetEffect ==
    [][\A t \in SharedThreads, m \in SharedMutexes :
          /\ (SharedMutex_StepOn(t, m) /\ SharedMutex_TryLockShared(t, m))
             => C7_TryLockStep(t, m, "TryLockShared",
                               SharedMutex_writer[m] # NoThread)
          /\ (SharedMutex_StepOn(t, m) /\ SharedMutex_TryLockExclusive(t, m))
             => C7_TryLockStep(t, m, "TryLockExclusive",
                               \/ SharedMutex_writer[m] # NoThread
                               \/ SharedMutex_readers[m] # {})]_vars

\* A thread that holds "a" has just got true from TryLockExclusive() on "b":
\* its held-set is the fallback set {a, b}, and the other thread, holding
\* "a" shared too, has its own held-set.
C7_Witness ==
    \E t \in SharedThreads, u \in SharedThreads :
        /\ t # u
        /\ SharedMutex_ret = <<t, "b", "TryLockExclusive", "true">>
        /\ single_held_shared_mutex[t] = Null
        /\ held_shared_mutexes[t] = <<{"a", "b"}>>
        /\ SharedMutex_writer["b"] = t
        /\ HeldSet(u) = {"a"}
        /\ SharedHolders("a") = {t, u}

(***************************************************************************)
(* SpinningMutex: properties                                               *)
(***************************************************************************)

RECURSIVE SumOver(_, _)
\* The sum of f[t] over the threads of S.
SumOver(f, S) ==
    IF S = {} THEN 0
    ELSE LET t == CHOOSE x \in S : TRUE IN f[t] + SumOver(f, S \ {t})

SpinningMutex_AllDone ==
    \A t \in SpinningThreads : SpinningMutex_pc[t] = "done"

\* The threads between Lock() and the return of Unlock().
SpinningMutex_Inside ==
    {t \in SpinningThreads : SpinningMutex_pc[t] \in {"read", "write", "Unlock"}}

\* C4, the states: at most one thread is between Lock() and Unlock() and it
\* is the holder of lock_; the counter is the number of increments written;
\* no native call fails; a thread can step until all are done; and when all
\* are done the counter is N*M.
C4_CounterExact ==
    /\ fatal = "none"
    /\ Cardinality(SpinningMutex_Inside) <= 1
    /\ \A t \in SpinningMutex_Inside : SpinningMutex_lock_ = t
    /\ SpinningMutex_counter =
           SumOver(SpinningMutex_cycles, SpinningThreads)
             + Cardinality({t \in SpinningThreads :
                               SpinningMutex_pc[t] = "Unlock"})
    /\ ~SpinningMutex_AllDone => ENABLED SpinningMutex_Next
    /\ SpinningMutex_AllDone
       => SpinningMutex_counter = NumSpinningThreads * NumCycles

\* C4: SpinningMutex mutual exclusion without lost updates.  For N
\* concurrent threads each performing M cycles of Lock(); read-increment-
\* write of a shared counter; Unlock(), every interleaving ends with the
\* counter equal to N*M, in each of the three builds of Lock().
C4_NoLostUpdates ==
    /\ []C4_CounterExact
    /\ <>SpinningMutex_AllDone

\* All threads are done in the Darwin build with the weak symbol absent,
\* and the counter is N*M.
C4_Witness ==
    /\ SpinningMutex_backend = "darwin_baseline"
    /\ SpinningMutex_AllDone
    /\ SpinningMutex_lock_ = NoThread
    /\ SpinningMutex_counter = NumSpinningThreads * NumCycles
    /\ \A t \in SpinningThreads : SpinningMutex_cycles[t] = NumCycles

(***************************************************************************)
(* RecursiveMutex: the depth counter                                       *)
(***************************************************************************)

\* Completed Lock() and successful TryLock() calls minus completed Unlock()
\* calls on the instance.
RecursiveMutex_Completed == SumOver(RecursiveMutex_acq, RecursiveThreads)

\* The Unlock() calls that have decremented level_ and not yet returned.
RecursiveMutex_Unlocking ==
    {t \in RecursiveThreads : RecursiveMutex_pc[t] = "Unlock_native"}

\* C11 as stated, the states: in every reachable state, with Unlock() called
\* only by threads owning an acquisition, the counter is >= 0 and equals the
\* completed Lock() and successful TryLock() calls minus the completed
\* Unlock() calls.
C11_CounterEqualsCompletedCalls ==
    ~RecursiveMutex_misuse =>
        /\ RecursiveMutex_level_ >= 0
        /\ RecursiveMutex_level_ = RecursiveMutex_Completed

\* C11, the states: with Unlock() called only by threads owning an
\* acquisition, the counter is >= 0, and equals the completed Lock() and
\* successful TryLock() calls minus the Unlock() calls that are completed or
\* past their decrement.
C11_CounterTracksDepth ==
    ~RecursiveMutex_misuse =>
        /\ RecursiveMutex_level_ >= 0
        /\ RecursiveMutex_level_ =
               RecursiveMutex_Completed - Cardinality(RecursiveMutex_Unlocking)
        /\ RecursiveMutex_level_ = RecursiveMutex_count
               - Cardinality({t \in RecursiveThreads :
                     RecursiveMutex_pc[t] \in
                         {"Lock_check", "Lock_level", "TryLock_check",
                          "TryLock_level", "Unlock_native"}})

\* C11, the calls: Unlock() called with the counter 0 fails DCHECK_LT and
\* leaves the counter; a TryLock() that returns false leaves the counter.
C11_CounterSteps ==
    \A t \in RecursiveThreads :
        /\ ( /\ RecursiveMutex_pc[t] = "idle"
             /\ RecursiveMutex_level_ = 0
             /\ RecursiveMutex_Unlock(t) )
           => /\ fatal' = "DCHECK_LT(0, level_)"
              /\ RecursiveMutex_pc'[t] = "idle"
              /\ UNCHANGED <<RecursiveMutex_level_, RecursiveMutex_owner,
                             RecursiveMutex_count, RecursiveMutex_acq>>
        /\ ( /\ RecursiveMutex_TryLockCall(t)
             /\ RecursiveMutex_pc'[t] = "idle" )
           => /\ RecursiveMutex_ret' = <<t, "false">>
              /\ UNCHANGED <<fatal, RecursiveMutex_level_, RecursiveMutex_acq>>
        /\ RecursiveMutex_level_' < RecursiveMutex_level_
           => RecursiveMutex_level_ > 0 \/ RecursiveMutex_misuse

\* C11 (amended): RecursiveMutex depth counter.  While Unlock() is called
\* only by a thread that owns an acquisition, the counter is >= 0 in every
\* reachable state and equals the completed Lock() and successful TryLock()
\* calls minus the Unlock() calls that have decremented it (Unlock()
\* decrements before the native release, so during that release the counter
\* is one below the count of completed calls); Unlock() when the counter is
\* 0 fires the fatal assertion and does not decrement; a failed TryLock()
\* does not change it.
C11_DepthCounter ==
    /\ []C11_CounterTracksDepth
    /\ [][C11_CounterSteps]_vars

\* A thread with two acquisitions is in Unlock() between level_-- and the
\* return of the native release: the counter is 1, the completed calls give
\* 2; the TryLock() of another thread has returned false.
C11_Witness ==
    \E t, u \in RecursiveThreads :
        /\ t # u
        /\ ~RecursiveMutex_misuse
        /\ RecursiveMutex_pc[t] = "Unlock_native"
        /\ RecursiveMutex_acq[t] = 2
        /\ RecursiveMutex_Completed = 2
        /\ RecursiveMutex_level_ = 1
        /\ RecursiveMutex_ret = <<u, "false">>

(***************************************************************************)
(* Destruction                                                             *)
(***************************************************************************)

\* C12, the destructor steps: a destructor fails a DCHECK if and only if
\* the object's counter is not 0, and otherwise the object is destroyed.
C12_DestructorSteps ==
    /\ Mutex_Destroy
       => /\ fatal' # "none" <=> Mutex_level_ # 0
          /\ fatal' # "none" => fatal' = "~Mutex: DCHECK_EQ(0, level_)"
          /\ fatal' = "none" => Lifetime_object' = "destroyed"
          /\ Mutex_level_' = Mutex_level_
    /\ RecursiveMutex_Destroy
       => /\ fatal' # "none" <=> RecursiveMutex_level_ # 0
          /\ fatal' # "none"
             => fatal' \in {"~RecursiveMutex: DCHECK_EQ(0, level_)",
                            "DestroyNativeHandle: DCHECK_EQ(0, result)"}
          /\ fatal' = "none" => Lifetime_object' = "destroyed"
          /\ RecursiveMutex_level_' = RecursiveMutex_level_

\* C12, the states in which a destructor can run: after balanced calls (no
\* thread holds, every Unlock() was the holder's) the counter is 0; while a
\* thread holds, the Mutex counter is 1 and the RecursiveMutex counter is
\* the depth k > 0; and the destructor does not wait.
C12_CounterAtDestruction ==
    /\ ( /\ Running
         /\ Lifetime_object = "Mutex"
         /\ \A t \in Threads : Mutex_pc[t] = "idle" )
       => /\ ENABLED Mutex_Destroy
          /\ ~Mutex_misuse
             => Mutex_level_ = IF Mutex_Holders = {} THEN 0 ELSE 1
    /\ ( /\ Running
         /\ Lifetime_object = "RecursiveMutex"
         /\ \A t \in RecursiveThreads : RecursiveMutex_pc[t] = "idle" )
       => /\ ENABLED RecursiveMutex_Destroy
          /\ RecursiveMutex_level_ = RecursiveMutex_Completed
          /\ RecursiveMutex_level_ = RecursiveMutex_count
          /\ RecursiveMutex_level_ >= 0

\* C12: destruction check.  Destroying a Mutex or a RecursiveMutex fires
\* the fatal debug assertion if and only if its debug counter is non-zero
\* at that moment; destroying an instance after a balanced sequence of
\* Lock/TryLock/Unlock calls never fires it, and destroying one that is
\* still held (Mutex counter 1, RecursiveMutex depth k > 0) always does.
C12_DestructionCheck ==
    /\ []C12_CounterAtDestruction
    /\ [][C12_DestructorSteps]_vars

\* A RecursiveMutex held at depth MaxDepth has been destroyed: the
\* destructor's counter check fired.
C12_Witness ==
    \E t \in LifetimeThreads :
        /\ Lifetime_object = "RecursiveMutex"
        /\ fatal = "~RecursiveMutex: DCHECK_EQ(0, level_)"
        /\ RecursiveMutex_acq[t] = MaxDepth
        /\ RecursiveMutex_level_ = MaxDepth
        /\ RecursiveMutex_owner = t

(***************************************************************************)
(* SharedMutex: the held-set and the native locks                          *)
(***************************************************************************)

\* The instances whose native lock thread t holds, in either mode.
NativeHeld(t) ==
    {m \in SharedMutexes :
        t \in SharedMutex_readers[m] \/ SharedMutex_writer[m] = t}

\* C13 as stated: in every reachable state, with every native release made
\* in the mode held, the held-set of every thread is exactly the set of
\* instances whose native lock it holds.
C13_HeldSetIsNativeHeld ==
    ~SharedMutex_misuse =>
        \A t \in SharedThreads : HeldSet(t) = NativeHeld(t)

\* C13 (amended): held-set meaning.  With every native release made in the
\* mode held, the held-set of a thread that is in no SharedMutex call is
\* exactly the set of instances whose native lock it holds, in shared or
\* exclusive mode.  Inside a call the two differ by the instance of the
\* call: LockShared()/LockExclusive() add it to the held-set before the
\* native acquisition, so a thread waiting for the native lock has it in
\* its held-set without holding it; UnlockShared()/UnlockExclusive() remove
\* it before the native release and TryLockShared()/TryLockExclusive() add
\* it after the native acquisition, so there the native lock is held
\* without the instance being in the held-set.
C13_HeldSetMeaning ==
    ~SharedMutex_misuse =>
        \A t \in SharedThreads :
            LET stmt == SharedMutex_pc[t][1]
                m == SharedMutex_pc[t][2]
            IN  /\ stmt = "idle"
                   => /\ HeldSet(t) = NativeHeld(t)
                      /\ \A n \in SharedMutexes :
                            n \in HeldSet(t) <=> SharedMutex_mode[t][n] # "none"
                /\ stmt \in {"LockShared_native", "LockExclusive_native"}
                   => /\ m \notin NativeHeld(t)
                      /\ HeldSet(t) = NativeHeld(t) \cup {m}
                /\ stmt \in {"UnlockShared_native", "UnlockExclusive_native",
                             "TryLockShared_hold", "TryLockExclusive_hold"}
                   => /\ m \notin HeldSet(t)
                      /\ NativeHeld(t) = HeldSet(t) \cup {m}

\* Thread t waits in LockExclusive() for "a", which thread u holds shared:
\* "a" is in t's held-set and t does not hold its native lock.
C13_Witness ==
    \E t \in SharedThreads, u \in SharedThreads :
        /\ t # u
        /\ ~SharedMutex_misuse
        /\ Running
        /\ SharedMutex_pc[t] = <<"LockExclusive_native", "a">>
        /\ SharedMutex_mode[u]["a"] = "shared"
        /\ u \in SharedMutex_readers["a"]
        /\ "a" \in HeldSet(t)
        /\ "a" \notin NativeHeld(t)
        /\ ~ENABLED SharedMutex_LockExclusive(t, "a")

\* Any of the six operations.
SharedMutex_Op(t, m) ==
    \/ SharedMutex_Acquire(t, m)
    \/ SharedMutex_UnlockShared(t, m)
    \/ SharedMutex_UnlockExclusive(t, m)

\* C14, the steps: a step of thread t leaves the single slot and the
\* fallback set of every other thread as they were, and an acquiring call
\* on an instance that is not in t's own held-set fails no assertion,
\* whoever else has the instance in its held-set.
C14_OtherHeldSetsUntouched ==
    \A t \in SharedThreads, m \in SharedMutexes :
        (SharedMutex_StepOn(t, m) /\ SharedMutex_Op(t, m))
        => /\ \A u \in SharedThreads \ {t} :
                 /\ single_held_shared_mutex'[u] = single_held_shared_mutex[u]
                 /\ held_shared_mutexes'[u] = held_shared_mutexes[u]
           /\ ( /\ SharedMutex_pc[t] = SharedMutex_Idle
                /\ m \notin HeldSet(t)
                /\ SharedMutex_Acquire(t, m) )
              => fatal' = "none"

\* C14: the held-set is partitioned per thread.  No SharedMutex operation
\* performed by thread A reads or changes thread B's single slot or
\* fallback set: B's held-set is the same before and after any step of A,
\* and two threads can both hold the same instance in shared mode, each
\* having it in its own held-set, without any assertion firing.
C14_HeldSetPerThread == [][C14_OtherHeldSetsUntouched]_vars

\* Two threads hold "a" in shared mode, each with "a" in its own single
\* slot, the second after a LockShared() that fired nothing.
C14_Witness ==
    \E t \in SharedThreads, u \in SharedThreads :
        /\ t # u
        /\ fatal = "none"
        /\ single_held_shared_mutex[t] = "a"
        /\ single_held_shared_mutex[u] = "a"
        /\ held_shared_mutexes[t] = NullSet
        /\ held_shared_mutexes[u] = NullSet
        /\ SharedMutex_readers["a"] = {t, u}
        /\ SharedMutex_mode[t]["a"] = "shared"
        /\ SharedMutex_mode[u]["a"] = "shared"
        /\ SharedMutex_pc[t] = SharedMutex_Idle
        /\ SharedMutex_pc[u] = SharedMutex_Idle

(***************************************************************************)
(* Mutex: Lock() on an instance the calling thread holds                   *)
(***************************************************************************)

\* Thread t holds the Mutex and is inside native_handle_.Lock() of a second
\* Lock() call.
Mutex_SelfLocking(t) == Mutex_holds[t] /\ Mutex_pc[t] = "Lock_native"

\* C15, the states: while a holder is inside the native acquisition of a
\* second Lock(), the native lock is its own, the acquisition cannot return,
\* the counter still reads 1 and nothing has aborted.
C15_SelfLockIsBlocked ==
    \A t \in Threads :
        (Mutex_SelfLocking(t) /\ ~Mutex_misuse)
        => /\ Mutex_native_handle_ = t
           /\ ~ENABLED Mutex_Lock(t)
           /\ Mutex_level_ = 1
           /\ fatal = "none"

\* C15, the steps: the Lock() call of a holder enters the native
\* acquisition and fires nothing, and once there the thread stays there.
C15_SelfLockSteps ==
    \A t \in Threads :
        /\ ( /\ Mutex_holds[t]
             /\ Mutex_pc[t] = "idle"
             /\ Mutex_pc'[t] = "Lock_native" )
           => fatal' = "none" /\ Mutex_level_' = Mutex_level_
        /\ ( /\ Mutex_holds[t]
             /\ Mutex_pc[t] = "idle"
             /\ Mutex_Lock(t) )
           => Mutex_pc'[t] = "Lock_native"
        /\ (Mutex_SelfLocking(t) /\ ~Mutex_misuse /\ ~Mutex_misuse')
           => /\ Mutex_holds'[t]
              /\ Mutex_pc'[t] = "Lock_native"
              /\ fatal' = "none"

\* C15: Lock() acquires the native lock before the debug check, so a thread
\* that calls Lock() again on a Mutex it holds blocks on the native lock for
\* as long as the callers keep the locking contract, which the blocked
\* holder cannot break: AssertUnheldAndMark() of that call is never
\* reached and no assertion fires.
C15_SelfLockBlocksBeforeCheck ==
    []C15_SelfLockIsBlocked /\ [][C15_SelfLockSteps]_vars

\* A holder is blocked in its second Lock() while another thread waits in
\* Lock() as well: nothing can step on the native lock any more.
C15_Witness ==
    \E t \in Threads, u \in Threads :
        /\ t # u
        /\ Mutex_SelfLocking(t)
        /\ ~Mutex_misuse
        /\ fatal = "none"
        /\ Mutex_native_handle_ = t
        /\ Mutex_level_ = 1
        /\ Mutex_pc[u] = "Lock_native"
        /\ ~ENABLED Mutex_Lock(t)
        /\ ~ENABLED Mutex_Lock(u)

(***************************************************************************)
(* SharedMutex: the representation of the held-set                         *)
(***************************************************************************)

\* The representation a (slot, set) pair is in: "Many" when the fallback
\* set is allocated, "Single" when only the slot is filled, else "Empty".
RepresentationOf(single, held) ==
    IF held # NullSet THEN "Many"
    ELSE IF single # Null THEN "Single"
    ELSE "Empty"

Representation(t) ==
    RepresentationOf(single_held_shared_mutex[t], held_shared_mutexes[t])

\* C16, the states: a held-set of exactly one instance has that instance in
\* the single slot and no fallback set.
C16_OneHeldIsInSlot ==
    \A t \in SharedThreads :
        Cardinality(HeldSet(t)) = 1
        => /\ single_held_shared_mutex[t] # Null
           /\ held_shared_mutexes[t] = NullSet

\* C16, the steps: the representation of a thread changes only along
\* Empty -> Single -> Many and Many -> Single -> Empty.
C16_RepresentationSteps ==
    \A t \in SharedThreads :
        Representation(t)' # Representation(t)
        => <<Representation(t), Representation(t)'>> \in
               { <<"Empty", "Single">>, <<"Single", "Many">>,
                 <<"Many", "Single">>, <<"Single", "Empty">> }

\* C16: in every reachable state in which a thread's held-set contains
\* exactly one SharedMutex, that instance is in the single slot and the
\* fallback set is not allocated; the representation moves
\* Empty -> Single -> Many as instances are added and
\* Many -> Single -> Empty as they are removed.
C16_SingleSlotForOneHeld ==
    []C16_OneHeldIsInSlot /\ [][C16_RepresentationSteps]_vars

\* Thread t is in no call and holds no native lock.
SharedMutex_HoldsNothing(t) ==
    /\ SharedMutex_pc[t] = SharedMutex_Idle
    /\ NativeHeld(t) = {}

\* C17, the states: a thread whose held-set is empty has a null slot and no
\* fallback set, and so has a thread that is in no call and holds no
\* instance, while every native release was made in the mode held.
C17_EmptyIsNullNull ==
    \A t \in SharedThreads :
        /\ HeldSet(t) = {}
           => /\ single_held_shared_mutex[t] = Null
              /\ held_shared_mutexes[t] = NullSet
        /\ (SharedMutex_HoldsNothing(t) /\ ~SharedMutex_misuse)
           => /\ single_held_shared_mutex[t] = Null
              /\ held_shared_mutexes[t] = NullSet

\* C17, the steps: the fallback set is allocated only by the addition of a
\* second, distinct instance while the slot is occupied, which moves the
\* slot's instance into it, and is freed only by the release of its last
\* element.
C17_AllocateAndFree ==
    \A t \in SharedThreads :
        /\ (held_shared_mutexes[t] = NullSet /\ held_shared_mutexes'[t] # NullSet)
           => /\ single_held_shared_mutex[t] # Null
              /\ single_held_shared_mutex'[t] = Null
              /\ single_held_shared_mutex[t] \in held_shared_mutexes'[t][1]
              /\ Cardinality(held_shared_mutexes'[t][1]) = 2
        /\ (held_shared_mutexes[t] # NullSet /\ held_shared_mutexes'[t] = NullSet)
           => /\ Cardinality(held_shared_mutexes[t][1]) = 1
              /\ HeldSet(t) # {}
              /\ HeldSet(t)' = {}
              /\ SharedMutex_pc[t] = SharedMutex_Idle
              /\ SharedMutex_pc'[t][1] \in
                     {"UnlockShared_native", "UnlockExclusive_native"}
              /\ SharedMutex_pc'[t][2] \in held_shared_mutexes[t][1]

\* C17: the held-set returns to the empty representation with no leak.
\* Whenever a thread holds zero instances its single slot is null and its
\* fallback set is deallocated; the fallback set is allocated only when a
\* second distinct instance is added while the slot is occupied, and is
\* freed by the release that empties it.
C17_NoLeak == []C17_EmptyIsNullNull /\ [][C17_AllocateAndFree]_vars

\* Thread t is in the unlock of the last instance it held, its slot and set
\* already null, while thread u has an allocated fallback set of two.
C17_Witness ==
    \E t \in SharedThreads, u \in SharedThreads, m \in SharedMutexes :
        /\ t # u
        /\ fatal = "none"
        /\ ~SharedMutex_misuse
        /\ SharedMutex_pc[t] = <<"UnlockShared_native", m>>
        /\ NativeHeld(t) = {m}
        /\ single_held_shared_mutex[t] = Null
        /\ held_shared_mutexes[t] = NullSet
        /\ held_shared_mutexes[u] # NullSet
        /\ Cardinality(held_shared_mutexes[u][1]) = 2

(***************************************************************************)
(* The held-set functions as an implementation of a set                    *)
(***************************************************************************)

\* C18, the steps: with S the set HeldSetOf makes of the calling thread's
\* slot and fallback set, a call of SharedMutexNotHeld(m) returns m \notin S
\* and leaves S; TryHoldSharedMutex(m) returns m \notin S and makes S
\* S \cup {m}; TryReleaseSharedMutex(m) returns m \in S and makes S S \ {m}.
C18_CallsActOnTheSet ==
    \A t \in SharedThreads, m \in HeldSetInstances :
        LET S == HeldSet(t)
            f == SharedMutex_ret'[3]
            ret == SharedMutex_ret'[4]
        IN /\ HeldSet_SharedMutexNotHeld(t, m)
              => ret = BoolRet(m \notin S) /\ HeldSet(t)' = S
           /\ HeldSet_TryHoldSharedMutex(t, m)
              => /\ f = "TryHoldSharedMutex"
                 /\ ret = BoolRet(m \notin S)
                 /\ HeldSet(t)' = S \cup {m}
           /\ HeldSet_TryReleaseSharedMutex(t, m)
              => /\ f = "TryReleaseSharedMutex"
                 /\ ret = BoolRet(m \in S)
                 /\ HeldSet(t)' = S \ {m}

\* C18: the slot-plus-fallback representation refines an abstract per-thread
\* set S.  After any sequence of calls, SharedMutexNotHeld(m) returns true
\* iff m is not in S; TryHoldSharedMutex(m) returns true iff m was not in S
\* and afterwards S is S plus m; TryReleaseSharedMutex(m) returns true iff m
\* was in S and afterwards S is S minus m; the membership of every other
\* instance is unchanged by each call.
C18_HeldSetRefinesSet == [][C18_CallsActOnTheSet]_vars

\* A thread whose fallback set holds all three instances has just been told
\* by TryHoldSharedMutex that "a" was held already.
C18_Witness ==
    \E t \in SharedThreads :
        /\ fatal = "none"
        /\ single_held_shared_mutex[t] = Null
        /\ held_shared_mutexes[t] = <<{"a", "b", "c"}>>
        /\ SharedMutex_ret = <<t, "a", "TryHoldSharedMutex", "false">>

(***************************************************************************)
(* SharedMutex: what the unlock check looks at                             *)
(***************************************************************************)

\* Thread t calls UnlockShared() or UnlockExclusive() on m: the first
\* statement of either, DCHECK(TryReleaseSharedMutex(this)).
SharedMutex_UnlockCall(t, m) ==
    /\ SharedMutex_pc[t] = SharedMutex_Idle
    /\ SharedMutex_StepOn(t, m)
    /\ SharedMutex_UnlockShared(t, m) \/ SharedMutex_UnlockExclusive(t, m)

\* C19, the steps: the unlock call of thread t on m fires
\* DCHECK(TryReleaseSharedMutex(this)) when m is not in t's held-set and
\* changes nothing else; when m is there it fires nothing, takes m out and
\* goes on to the native release.
C19_UnlockCheckSteps ==
    \A t \in SharedThreads, m \in SharedMutexes :
        SharedMutex_UnlockCall(t, m)
        => IF m \in HeldSet(t)
           THEN /\ fatal' = "none"
                /\ HeldSet(t)' = HeldSet(t) \ {m}
                /\ SharedMutex_pc'[t] \in {<<"UnlockShared_native", m>>,
                                          <<"UnlockExclusive_native", m>>}
           ELSE /\ fatal' = "DCHECK(TryReleaseSharedMutex(this))"
                /\ HeldSet(t)' = HeldSet(t)
                /\ SharedMutex_pc' = SharedMutex_pc

\* C19: the unlock check of a SharedMutex depends only on the caller's own
\* held-set.  UnlockShared() and UnlockExclusive() fire the held-set
\* assertion if and only if the instance is absent from the calling
\* thread's held-set, in whatever mode the instance was acquired and
\* whatever other threads hold: an unlock by a thread that did not acquire
\* the instance is flagged even while another thread holds it, and an
\* UnlockExclusive() after LockShared() by the same thread passes the check.
C19_UnlockCheckIsMembership == [][C19_UnlockCheckSteps]_vars

\* Thread t, which acquired "a" with LockShared() and still holds it as a
\* reader, is past the check of UnlockExclusive() with nothing fired, while
\* thread u holds "a" as a reader too.
C19_Witness ==
    \E t \in SharedThreads, u \in SharedThreads :
        /\ t # u
        /\ fatal = "none"
        /\ SharedMutex_pc[t] = <<"UnlockExclusive_native", "a">>
        /\ SharedMutex_readers["a"] = {t, u}
        /\ SharedMutex_writer["a"] = NoThread
        /\ "a" \notin HeldSet(t)
        /\ "a" \in HeldSet(u)

(***************************************************************************)
(* SharedMutex: consistency of slot and fallback set                       *)
(***************************************************************************)

\* C20, the states: no thread has both a non-null slot and a non-null
\* fallback set, an allocated fallback set has an element, the internal
\* checks of a TryHoldSharedMutex or TryReleaseSharedMutex call made now
\* would pass for every instance, and no run has stopped in one of them.
C20_SlotXorSet ==
    /\ \A t \in SharedThreads :
          /\ ~(single_held_shared_mutex[t] # Null /\ held_shared_mutexes[t] # NullSet)
          /\ held_shared_mutexes[t] # NullSet => held_shared_mutexes[t][1] # {}
          /\ \A m \in HeldSetInstances :
                /\ TryHoldSharedMutex(single_held_shared_mutex[t],
                                      held_shared_mutexes[t], m).check = "ok"
                /\ TryReleaseSharedMutex(single_held_shared_mutex[t],
                                         held_shared_mutexes[t], m).check = "ok"
    /\ fatal # "DCHECK_NULL(held_shared_mutexes)"

\* C20, the steps: every call of TryHoldSharedMutex and
\* TryReleaseSharedMutex passes the function's internal checks.
C20_InternalChecksPass ==
    \A t \in SharedThreads, m \in HeldSetInstances :
        (HeldSet_TryHoldSharedMutex(t, m) \/ HeldSet_TryReleaseSharedMutex(t, m))
        => /\ fatal' = "none"
           /\ SharedMutex_ret'[4] \in {"true", "false"}

\* C20: the held-set representation invariant.  In every reachable state of
\* every thread the single slot and the fallback set are never both
\* non-null, a non-null fallback set is never empty, and the internal
\* consistency checks of TryHoldSharedMutex (fallback set null when
\* promoting from the slot, slot null when filling it) never fail, for any
\* sequence of hold and release calls.
C20_RepresentationInvariant ==
    []C20_SlotXorSet /\ [][C20_InternalChecksPass]_vars

\* A thread promoted from the slot to the set, released down to one element
\* in the set, and has just added a third instance to it: the slot is null
\* and the set has two elements, while another thread uses its slot.
C20_Witness ==
    \E t \in SharedThreads, u \in SharedThreads :
        /\ t # u
        /\ fatal = "none"
        /\ single_held_shared_mutex[t] = Null
        /\ held_shared_mutexes[t] = <<{"b", "c"}>>
        /\ SharedMutex_ret = <<t, "c", "TryHoldSharedMutex", "true">>
        /\ single_held_shared_mutex[u] = "a"
        /\ held_shared_mutexes[u] = NullSet

====
